---------------------------- MODULE Spec2Model ----------------------------
(***************************************************************************)
(* Model of the MCP Bridge Registry (src/registry/main.py): the in-memory  *)
(* stores of OpenAPI servers and MCP bridges, the port allocator, the      *)
(* bridge lifecycle (create / start / stop / delete), the JSON snapshot    *)
(* written by save_data, the background start task scheduled by the create *)
(* route, the discover route and the sweep of health_check_task.           *)
(* The service runs on one asyncio event loop: a handler                   *)
(* runs without interleaving between two awaits, so every handler that has *)
(* no suspension point after its first read of the store is one action.    *)
(* start_bridge is split at the subprocess.Popen call only to expose the   *)
(* intermediate status "starting"; no other handler can run in between.    *)
(***************************************************************************)
EXTENDS Integers, Sequences, FiniteSets, TLC

\* ------------------------------------------------------------- bounds
MaxBridges == 2
MaxPorts == 2
MaxTime == 0
MaxRecords == 2
MaxAgents == 2
MaxCalls == 2
MaxLaunches == 3
MaxListed   == 2
MaxServices == 3

\* ---------------------------------------------------------- constants
PortBase == 8100
NoPid == 0
NoTime == -1
NoName == "<none>"

\* A process identifier for every process that can be alive at once: each bridge an
\* instance loaded or created has launched at most one process that was not signalled.
Pids == 1..(MaxBridges + MaxPorts)
Times == 0..MaxTime
BaseUrls == {"u1"}
RequestNames == {NoName}
BridgeIds == (1..MaxBridges) \X Times

VARIABLES
  servers,     \* registry.servers: server_id -> OpenAPIServer
  bridges,     \* registry.bridges: bridge_id -> MCPBridge
  next_port,   \* registry.next_port
  disk,        \* data_dir: contents of servers.json and bridges.json
  procs,       \* pids of the processes this instance launched and has not signalled
  tasks,       \* pending BackgroundTasks: bridge_id -> number of scheduled start_bridge calls
  pc,          \* the call that is inside start_bridge, between "starting" and Popen's outcome
  issued,      \* the ports get_next_port has returned in this process, in order
  trace,       \* the last completed request, preceded by the one before it when that
               \* was the same kind of request (start / stop) for the same bridge id
  monitor,     \* health_check_task: asleep, or where its sweep over registry.servers is
  net,         \* the probe addresses <<base_url, endpoint>> that answer below 400 from now on
  mcp_servers,      \* bridge.mcp_servers: server_id -> MCPServerInfo
  openapi_servers,  \* bridge.openapi_servers: server_id -> OpenAPIServerInfo
  client_sessions,  \* bridge.client_sessions: server_id -> ClientSession (by number)
  bridge_disk,      \* the bridge service's data_dir: mcp_servers.json, openapi_servers.json
  calls,            \* the bridge service's requests in flight and their replies, by slot
  stdio             \* the stdio processes launched so far and the sessions still open

\* The bridge service (src/bidirectional-bridge/main.py) is a process of its own.
bridge_vars == <<mcp_servers, openapi_servers, client_sessions, bridge_disk, calls, stdio>>

registry_vars ==
  <<servers, bridges, next_port, disk, procs, tasks, pc, issued, trace, monitor, net>>

vars == <<registry_vars, bridge_vars>>

\* What the request handlers of the registry leave alone.
others == <<monitor, net, bridge_vars>>

\* ------------------------------------------------------------ helpers
Idle == [kind |-> "idle"]

NoSid == <<NoName, NoName>>

\* No health check has finished yet.
NoCheck == [sid |-> NoSid, probes |-> <<>>, verdict |-> "none"]

\* health_check_task without the try / except around its loop body: the exception of
\* a sweep that was cut ends the task.
AsleepOrDead(check, ended, done, store) ==
  [kind |-> IF ended = "cut" THEN "dead" ELSE "sleeping",
   check |-> check, ended |-> ended, done |-> done, store |-> store]

\* health_check_task inside asyncio.sleep(60). check is the last health check that
\* finished, ended how the last sweep ended ("saved": the loop ran out and save_data()
\* was called; "cut": the loop raised), done the servers that sweep attempted and
\* store the servers that were stored when it ended.
Asleep(check, ended, done, store) ==
  [kind |-> "sleeping", check |-> check, ended |-> ended, done |-> done, store |-> store]

Sleeping == Asleep(NoCheck, "never", {}, {})

Dom(f) == DOMAIN f

Put(f, k, v) == [x \in Dom(f) \cup {k} |-> IF x = k THEN v ELSE f[x]]

Drop(f, k) == [x \in Dom(f) \ {k} |-> f[x]]

Empty == [x \in {} |-> 0]

\* The title the spec at a base address declares (spec_data['info']['title']).
Title(base_url) == "title-" \o base_url

\* server_id = f"{server.name}_{hash(server.base_url) % 10000}"; the hash tells the
\* addresses of BaseUrls apart.
ServerId(server) == <<server.name, server.base_url>>

\* bridge_id = f"bridge_{len(self.bridges) + 1}_{int(time.time())}"
BridgeId(n, t) == <<n, t>>

\* datetime.isoformat / datetime.fromisoformat on the snapshot's timestamps.
IsoFormat(t) == IF t = NoTime THEN [null |-> TRUE] ELSE [iso |-> t]

FromIso(s) == IF "iso" \in DOMAIN s THEN s.iso ELSE NoTime

\* ------------------------------------------------------------ records
\* OpenAPIServer(name, base_url, ..., last_seen=datetime.now(), status="online")
\* as discover_openapi_server builds it, with the request's name override;
\* health_endpoint keeps the dataclass default.
NewServer(base_url, req_name, t) ==
  [name            |-> IF req_name # NoName THEN req_name ELSE Title(base_url),
   base_url        |-> base_url,
   health_endpoint |-> "/health",
   status          |-> "online",
   last_seen       |-> t]

\* MCPBridge(...) built with status "running".
NewBridgeRunning(server, port, t) ==
  [openapi_server    |-> server,
   linked            |-> TRUE,
   port              |-> port,
   process_id        |-> NoPid,
   status            |-> "running",
   created_at        |-> t,
   last_health_check |-> NoTime]

\* MCPBridge(id, name, openapi_server=server, bridge_url, created_at, status="stopped").
\* port stands for bridge_url = f"http://localhost:{bridge_port}"; linked says that
\* openapi_server is the very object stored in servers[ServerId(openapi_server)].
NewBridge(server, port, t) ==
  [openapi_server    |-> server,
   linked            |-> TRUE,
   port              |-> port,
   process_id        |-> NoPid,
   status            |-> "stopped",
   created_at        |-> t,
   last_health_check |-> NoTime]

\* asdict + json_encoder: what save_data writes for one server and one bridge.
SerServer(s) == [s EXCEPT !.last_seen = IsoFormat(s.last_seen)]

SerBridge(b) ==
  [openapi_server    |-> SerServer(b.openapi_server),
   port              |-> b.port,
   process_id        |-> b.process_id,
   status            |-> b.status,
   created_at        |-> IsoFormat(b.created_at),
   last_health_check |-> IsoFormat(b.last_health_check)]

\* save_data(): both files are rewritten from the in-memory maps.
Snapshot(srv, brs) ==
  [servers |-> [k \in Dom(srv) |-> SerServer(srv[k])],
   bridges |-> [k \in Dom(brs) |-> SerBridge(brs[k])]]

\* load_data(): one record of servers.json / bridges.json back into an object.
LoadServer(d) == [d EXCEPT !.last_seen = FromIso(d.last_seen)]

\* load_data reading created_at into last_health_check as well.
LoadBridgeOneStamp(d) ==
  [openapi_server    |-> LoadServer(d.openapi_server),
   linked            |-> FALSE,
   port              |-> d.port,
   process_id        |-> d.process_id,
   status            |-> d.status,
   created_at        |-> FromIso(d.created_at),
   last_health_check |-> FromIso(d.created_at)]

LoadBridge(d) ==
  [openapi_server    |-> LoadServer(d.openapi_server),
   linked            |-> FALSE,
   port              |-> d.port,
   process_id        |-> d.process_id,
   status            |-> d.status,
   created_at        |-> FromIso(d.created_at),
   last_health_check |-> FromIso(d.last_health_check)]

\* self.servers[server_id] = server: a bridge that held the replaced object keeps it,
\* and is no longer the object the store holds.
Unlink(brs, sid) ==
  [k \in Dom(brs) |->
     IF ServerId(brs[k].openapi_server) = sid
       THEN [brs[k] EXCEPT !.linked = FALSE]
       ELSE brs[k]]

\* ----------------------------------------------------------- responses
NoId == <<0, 0>>

\* What a request did: was is the bridge's status when the request arrived, status and
\* process_id are the bridge's after it (for a delete, those of the record at the
\* moment it is removed), pid the process it launched or signalled.
Reply(op, id, result, was, b, pid) ==
  [op |-> op, id |-> id, result |-> result, was |-> was,
   status |-> b.status, process_id |-> b.process_id, pid |-> pid]

Nothing == [status |-> "none", process_id |-> NoPid]

StartOps == {"start", "autostart"}

SameKind(a, b) ==
  /\ a.id = b.id
  /\ a.result # "notfound"
  /\ \/ a.op \in StartOps /\ b.op \in StartOps
     \/ a.op = "stop" /\ b.op = "stop"

Traced(r) ==
  IF trace # <<>> /\ SameKind(trace[Len(trace)], r)
    THEN <<trace[Len(trace)], r>>
    ELSE <<r>>

Last == trace[Len(trace)]

\* -------------------------------------------------------------- state
\* The timestamps stored in memory, and the instants time.time() / datetime.now() can
\* return next: none earlier than a timestamp the instance still holds.
Stamps ==
  {bridges[k].created_at : k \in Dom(bridges)}
    \cup {bridges[k].last_health_check : k \in Dom(bridges)}
    \cup {servers[k].last_seen : k \in Dom(servers)}

Clock == {t \in Times : \A u \in Stamps : u <= t}

\* MCPBridgeRegistry.__init__ on an empty data directory.
\* A request slot of the bridge service that holds no request.
NoCall == [at |-> "free"]

Slots == 1..MaxCalls

\* BidirectionalBridge.__init__ and load_data() on an empty data directory.
BridgeInit ==
  /\ mcp_servers = Empty
  /\ openapi_servers = Empty
  /\ client_sessions = Empty
  /\ bridge_disk = [mcp_servers |-> Empty, openapi_servers |-> Empty]
  /\ calls = [s \in Slots |-> NoCall]
  /\ stdio = [launched |-> 0, open |-> {}]

Init ==
  /\ servers = Empty
  /\ bridges = Empty
  /\ next_port = PortBase
  /\ disk = Snapshot(Empty, Empty)
  /\ procs = {}
  /\ tasks = [id \in BridgeIds |-> 0]
  /\ pc = Idle
  /\ issued = <<>>
  /\ trace = <<>>
  /\ monitor = Sleeping
  /\ net = {}
  /\ BridgeInit

\* get_next_port without its increment: the same port is handed out again.
GetNextPortNoIncrement(np) == [port |-> np, next_port |-> np]

\* get_next_port(): port = self.next_port; self.next_port += 1; return port
get_next_port(np) == [port |-> np, next_port |-> np + 1]

\* registry.create_bridge(request) once discover_openapi_server(base_url) has returned
\* a server: the new bridge's id and the stores after it.
CreateResult(base_url, req_name, t) ==
  LET server == NewServer(base_url, req_name, t)
      id     == BridgeId(Cardinality(Dom(bridges)) + 1, t)
      alloc  == get_next_port(next_port)
      sid    == ServerId(server)
  IN [id        |-> id,
      port      |-> alloc.port,
      next_port |-> alloc.next_port,
      servers   |-> Put(servers, sid, server),
      bridges   |-> Put(Unlink(bridges, sid), id, NewBridge(server, alloc.port, t))]

\* create_bridge taking the port before it looks at what discovery returned.
CreateBridgeAllocatesFirst(base_url, req_name, found, t) ==
  /\ pc = Idle
  /\ next_port < PortBase + MaxPorts
  /\ IF ~found
       THEN /\ next_port' = next_port + 1
            /\ issued' = Append(issued, next_port)
            /\ trace' = Traced(Reply("create", NoId, "discovery_failed", "none", Nothing, NoPid))
            /\ UNCHANGED <<servers, bridges, disk, procs, tasks, pc>>
       ELSE /\ Cardinality(Dom(bridges)) < MaxBridges
            /\ LET r == CreateResult(base_url, req_name, t) IN
                  /\ next_port' = r.next_port
                  /\ issued' = Append(issued, r.port)
                  /\ servers' = r.servers
                  /\ bridges' = r.bridges
                  /\ disk' = Snapshot(r.servers, r.bridges)
                  /\ tasks' = [tasks EXCEPT ![r.id] = @ + 1]
                  /\ trace' = Traced(Reply("create", r.id, "created", "none", r.bridges[r.id], NoPid))
                  /\ UNCHANGED <<procs, pc>>

\* POST /bridges: bridge = await registry.create_bridge(request), then
\* background_tasks.add_task(registry.start_bridge, bridge.id).
\* found is whether discover_openapi_server(base_url) returned a server; when it
\* returned None, create_bridge raises ValueError and the route answers 400.
create_bridge(base_url, req_name, found, t) ==
  /\ pc = Idle
  /\ IF ~found
       THEN /\ trace' = Traced(Reply("create", NoId, "discovery_failed", "none", Nothing, NoPid))
            /\ UNCHANGED <<servers, bridges, next_port, disk, procs, tasks, pc, issued>>
       ELSE /\ Cardinality(Dom(bridges)) < MaxBridges
            /\ next_port < PortBase + MaxPorts
            /\ LET r == CreateResult(base_url, req_name, t) IN
                  /\ next_port' = r.next_port
                  /\ issued' = Append(issued, r.port)
                  /\ servers' = r.servers
                  /\ bridges' = r.bridges
                  /\ disk' = Snapshot(r.servers, r.bridges)
                  /\ tasks' = [tasks EXCEPT ![r.id] = @ + 1]
                  /\ trace' = Traced(Reply("create", r.id, "created", "none", r.bridges[r.id], NoPid))
                  /\ UNCHANGED <<procs, pc>>

\* start_bridge without its "already running" early return.
StartCallNoRunningCheck(id, op) ==
  /\ pc = Idle
  /\ IF id \notin Dom(bridges)
       THEN /\ trace' = Traced(Reply(op, id, "notfound", "none", Nothing, NoPid))
            /\ UNCHANGED <<servers, bridges, next_port, disk, procs, pc, issued>>
       ELSE /\ bridges' = [bridges EXCEPT ![id].status = "starting"]
            /\ pc' = [kind |-> "starting", id |-> id, op |-> op, was |-> bridges[id].status]
            /\ UNCHANGED <<servers, next_port, disk, procs, issued, trace>>

\* start_bridge(bridge_id) up to the subprocess.Popen call; op tells the background
\* task of the create route ("autostart") from POST /bridges/{id}/start ("start").
StartCall(id, op) ==
  /\ pc = Idle
  /\ IF id \notin Dom(bridges)
       THEN \* raise ValueError: 404 for the route, a logged error for the task
            /\ trace' = Traced(Reply(op, id, "notfound", "none", Nothing, NoPid))
            /\ UNCHANGED <<servers, bridges, next_port, disk, procs, pc, issued>>
       ELSE IF bridges[id].status = "running"
       THEN \* return True
            /\ trace' = Traced(Reply(op, id, "true", "running", bridges[id], NoPid))
            /\ UNCHANGED <<servers, bridges, next_port, disk, procs, pc, issued>>
       ELSE \* bridge.status = "starting"
            /\ bridges' = [bridges EXCEPT ![id].status = "starting"]
            /\ pc' = [kind |-> "starting", id |-> id, op |-> op, was |-> bridges[id].status]
            /\ UNCHANGED <<servers, next_port, disk, procs, issued, trace>>

\* POST /bridges/{bridge_id}/start
start_bridge(id) ==
  /\ StartCall(id, "start")
  /\ UNCHANGED tasks

\* The background task the create route scheduled: registry.start_bridge(bridge.id).
background_start(id) ==
  /\ tasks[id] > 0
  /\ tasks' = [tasks EXCEPT ![id] = @ - 1]
  /\ StartCall(id, "autostart")

\* The pid of the process subprocess.Popen launched: one no live process has.
NewPid == CHOOSE p \in Pids \ procs : \A q \in Pids \ procs : p <= q

\* subprocess.Popen returned: process_id, status "running", last_health_check, save_data().
LaunchOk(id, t) ==
  /\ bridges' = [bridges EXCEPT ![id].process_id = NewPid,
                                ![id].status = "running",
                                ![id].last_health_check = t]
  /\ procs' = procs \cup {NewPid}
  /\ disk' = Snapshot(servers, bridges')
  /\ trace' = Traced(Reply(pc.op, id, "true", pc.was, bridges'[id], NewPid))

\* subprocess.Popen raised: except Exception: bridge.status = "error"; return False
LaunchFailed(id) ==
  /\ bridges' = [bridges EXCEPT ![id].status = "error"]
  /\ trace' = Traced(Reply(pc.op, id, "false", pc.was, bridges'[id], NoPid))
  /\ UNCHANGED <<procs, disk>>

\* start_bridge from subprocess.Popen to its return.
start_launch ==
  /\ pc.kind = "starting"
  /\ \/ \E t \in Clock : LaunchOk(pc.id, t)
     \/ LaunchFailed(pc.id)
  /\ pc' = Idle
  /\ UNCHANGED <<servers, next_port, tasks, issued>>

\* stop_bridge clearing process_id before the kill command has been run.
StopResultClearsPidFirst(brs, ps, id, killOk) ==
  LET b == brs[id] IN
  IF b.status = "stopped"
    THEN [ok |-> TRUE, bridges |-> brs, procs |-> ps, signalled |-> NoPid, saved |-> FALSE]
  ELSE IF b.process_id # NoPid /\ ~killOk
    THEN [ok |-> FALSE, bridges |-> [brs EXCEPT ![id].process_id = NoPid], procs |-> ps,
          signalled |-> NoPid, saved |-> FALSE]
  ELSE [ok        |-> TRUE,
        bridges   |-> [brs EXCEPT ![id].process_id = NoPid, ![id].status = "stopped"],
        procs     |-> ps \ {b.process_id},
        signalled |-> b.process_id,
        saved     |-> TRUE]

\* stop_bridge without its save_data() call.
StopResultNoSave(brs, ps, id, killOk) ==
  LET b == brs[id] IN
  IF b.status = "stopped"
    THEN [ok |-> TRUE, bridges |-> brs, procs |-> ps, signalled |-> NoPid, saved |-> FALSE]
  ELSE IF b.process_id # NoPid /\ ~killOk
    THEN [ok |-> FALSE, bridges |-> brs, procs |-> ps, signalled |-> NoPid, saved |-> FALSE]
  ELSE [ok        |-> TRUE,
        bridges   |-> [brs EXCEPT ![id].process_id = NoPid, ![id].status = "stopped"],
        procs     |-> ps \ {b.process_id},
        signalled |-> b.process_id,
        saved     |-> FALSE]

\* stop_bridge(bridge_id) on a stored bridge: what it returns and leaves behind.
\* killOk is whether subprocess.run(["kill", pid]) could be launched; when it raises,
\* the except branch returns False and nothing has been changed.
StopResult(brs, ps, id, killOk) ==
  LET b == brs[id] IN
  IF b.status = "stopped"
    THEN [ok |-> TRUE, bridges |-> brs, procs |-> ps, signalled |-> NoPid, saved |-> FALSE]
  ELSE IF b.process_id # NoPid /\ ~killOk
    THEN [ok |-> FALSE, bridges |-> brs, procs |-> ps, signalled |-> NoPid, saved |-> FALSE]
  ELSE [ok        |-> TRUE,
        bridges   |-> [brs EXCEPT ![id].process_id = NoPid, ![id].status = "stopped"],
        procs     |-> ps \ {b.process_id},
        signalled |-> b.process_id,
        saved     |-> TRUE]

\* POST /bridges/{bridge_id}/stop
stop_bridge(id, killOk) ==
  /\ pc = Idle
  /\ IF id \notin Dom(bridges)
       THEN /\ trace' = Traced(Reply("stop", id, "notfound", "none", Nothing, NoPid))
            /\ UNCHANGED <<servers, bridges, next_port, disk, procs, tasks, pc, issued>>
       ELSE LET r == StopResult(bridges, procs, id, killOk) IN
            /\ bridges' = r.bridges
            /\ procs' = r.procs
            /\ disk' = IF r.saved THEN Snapshot(servers, r.bridges) ELSE disk
            /\ trace' = Traced(Reply("stop", id, IF r.ok THEN "true" ELSE "false",
                                     bridges[id].status, r.bridges[id], r.signalled))
            /\ UNCHANGED <<servers, next_port, tasks, pc, issued>>

\* DELETE /bridges/{bridge_id}: await registry.stop_bridge(bridge_id) (its result is
\* not looked at), del registry.bridges[bridge_id], registry.save_data().
delete_bridge(id, killOk) ==
  /\ pc = Idle
  /\ IF id \notin Dom(bridges)
       THEN /\ trace' = Traced(Reply("delete", id, "notfound", "none", Nothing, NoPid))
            /\ UNCHANGED <<servers, bridges, next_port, disk, procs, tasks, pc, issued>>
       ELSE LET r == StopResult(bridges, procs, id, killOk) IN
            /\ bridges' = Drop(r.bridges, id)
            /\ procs' = r.procs
            /\ disk' = Snapshot(servers, bridges')
            /\ trace' = Traced(Reply("delete", id, "deleted",
                                     bridges[id].status, r.bridges[id], r.signalled))
            /\ UNCHANGED <<servers, next_port, tasks, pc, issued>>

\* POST /discover: a discovered server replaces the object stored under its id and
\* save_data() is called; when nothing is found the route answers with an error.
discover_server(base_url, found, t) ==
  /\ pc = Idle
  /\ found
  /\ LET server == NewServer(base_url, NoName, t)
         sid    == ServerId(server)
     IN /\ servers' = Put(servers, sid, server)
        /\ bridges' = Unlink(bridges, sid)
        /\ disk' = Snapshot(servers', bridges')
  /\ UNCHANGED <<next_port, procs, tasks, pc, issued, trace>>

\* health_check_server stamping last_seen whatever the outcome.
CheckedAlwaysStamps(server, outcome, t) ==
  [server EXCEPT !.status = outcome, !.last_seen = 0]

\* What health_check_server leaves in a server: "online" with last_seen stamped when a
\* probe answered below 400, "offline" when none did, "error" when the client failed.
Outcomes == {"online", "offline", "error"}

Checked(server, outcome, t) ==
  IF outcome = "online"
    THEN [server EXCEPT !.status = "online", !.last_seen = t]
    ELSE [server EXCEPT !.status = outcome]

\* One sweep of health_check_task: health_check_server on every stored server, then
\* save_data(). The last server's result and the save run without suspension; the store
\* holds at most one server here, so the sweep is one step.
health_check_task(outcome, t) ==
  /\ pc = Idle
  /\ servers' = [k \in Dom(servers) |-> Checked(servers[k], outcome[k], t)]
  /\ bridges' = [k \in Dom(bridges) |->
                   IF bridges[k].linked
                     THEN [bridges[k] EXCEPT
                             !.openapi_server = servers'[ServerId(bridges[k].openapi_server)]]
                     ELSE bridges[k]]
  /\ disk' = Snapshot(servers', bridges')
  /\ UNCHANGED <<next_port, procs, tasks, pc, issued, trace>>

\* ------------------------------------------------------ specification
Next ==
  \/ \E u \in BaseUrls, n \in RequestNames, found \in BOOLEAN, t \in Clock : create_bridge(u, n, found, t)
       /\ UNCHANGED others
  \/ \E id \in BridgeIds : start_bridge(id)
       /\ UNCHANGED others
  \/ \E id \in BridgeIds : background_start(id)
       /\ UNCHANGED others
  \/ start_launch
       /\ UNCHANGED others
  \/ \E id \in BridgeIds, killOk \in BOOLEAN : stop_bridge(id, killOk)
       /\ UNCHANGED others
  \/ \E id \in BridgeIds, killOk \in BOOLEAN : delete_bridge(id, killOk)
       /\ UNCHANGED others
  \/ \E u \in BaseUrls, found \in BOOLEAN, t \in Clock : discover_server(u, found, t)
       /\ UNCHANGED others
  \/ \E outcome \in [Dom(servers) -> Outcomes], t \in Clock : health_check_task(outcome, t)
       /\ UNCHANGED others

Spec == Init /\ [][Next]_vars

\* The registry files an earlier instance can have left in the data directory: none, or
\* one bridge, which that instance created and then left stopped, running, or failed
\* to launch.
PriorStates == {<<"stopped", NoPid>>, <<"running", 1>>, <<"error", NoPid>>}

PriorServer == NewServer("u1", NoName, 0)

PriorBridge(st) ==
  [NewBridge(PriorServer, PortBase, 0) EXCEPT !.status = st[1], !.process_id = st[2]]

PriorDisk(st) ==
  Snapshot(Put(Empty, ServerId(PriorServer), PriorServer),
           Put(Empty, BridgeId(1, 0), PriorBridge(st)))

\* MCPBridgeRegistry.__init__ and load_data() on such a data directory: the port counter
\* starts at the base again and the earlier instance's processes are not this one's.
InitLoaded ==
  /\ disk \in {Snapshot(Empty, Empty)} \cup {PriorDisk(st) : st \in PriorStates}
  /\ servers = [k \in Dom(disk.servers) |-> LoadServer(disk.servers[k])]
  /\ bridges = [k \in Dom(disk.bridges) |-> LoadBridge(disk.bridges[k])]
  /\ next_port = PortBase
  /\ procs = {}
  /\ tasks = [id \in BridgeIds |-> 0]
  /\ pc = Idle
  /\ issued = <<>>
  /\ trace = <<>>
  /\ monitor = Sleeping
  /\ net = {}
  /\ BridgeInit

SpecLoaded == InitLoaded /\ [][Next]_vars

\* ------------------------------------------------------- discover route
\* spec_endpoints of discover_openapi_server, in the order they are tried.
SpecEndpoints == <<"/openapi.json", "/openapi.yaml", "/swagger.json", "/docs", "/api/docs">>

\* What client.get(spec_url) gives for one endpoint: status 200 with an OpenAPI document
\* (JSON at the .json endpoints, YAML at the .yaml one), status 200 with something
\* else, another status, or an exception of the transport.
ProbeResults(endpoint) ==
  IF endpoint \in {"/docs", "/api/docs"} THEN {"other", "exception"}
  ELSE {"document", "other", "not_200", "exception"}

Probes ==
  {p \in [{SpecEndpoints[i] : i \in 1..Len(SpecEndpoints)} ->
            {"document", "other", "not_200", "exception"}] :
     \A i \in 1..Len(SpecEndpoints) : p[SpecEndpoints[i]] \in ProbeResults(SpecEndpoints[i])}

\* The test inside the loop: a 200 from an endpoint ending in .json or .yaml whose
\* spec_data is a dict with an 'openapi' or 'swagger' key. spec_data is response.json()
\* for .json and response.text, a str, for .yaml.
SpecData(endpoint, result) ==
  IF endpoint = "/openapi.yaml" THEN "str"
  ELSE IF result = "document" THEN "dict_with_openapi_key" ELSE "other"

Accepted(endpoint, result) ==
  /\ result \in {"document", "other"}
  /\ endpoint \in {"/openapi.json", "/openapi.yaml", "/swagger.json"}
  /\ SpecData(endpoint, result) = "dict_with_openapi_key"

\* discover_openapi_server: the server of the first endpoint that is accepted, or None;
\* exceptions of a probe are swallowed by the inner except.
Discovered(probe) ==
  \E i \in 1..Len(SpecEndpoints) : Accepted(SpecEndpoints[i], probe[SpecEndpoints[i]])

\* What POST /discover did: registered the server with id server, or answered the error
\* the route's except branch makes of its own 404 (status 400, detail "404: No OpenAPI
\* server found at the given URL"); documents says whether some spec endpoint answered
\* with an OpenAPI document, network whether some probe raised.
DiscoverReply(result, sid, probe) ==
  [op |-> "discover", id |-> NoId, result |-> result, was |-> "none",
   status |-> "none", process_id |-> NoPid, pid |-> NoPid, server |-> sid,
   documents |-> \E e \in DOMAIN probe : probe[e] = "document",
   network   |-> \E e \in DOMAIN probe : probe[e] = "exception"]

\* POST /discover with the probes' results: discover_openapi_server, then the store and
\* save_data() when a server came back.
discover_route(base_url, probe, t) ==
  /\ pc = Idle
  /\ IF Discovered(probe)
       THEN LET server == NewServer(base_url, NoName, t)
                sid    == ServerId(server)
            IN /\ servers' = Put(servers, sid, server)
               /\ bridges' = Unlink(bridges, sid)
               /\ disk' = Snapshot(servers', bridges')
               /\ trace' = Traced(DiscoverReply("registered", sid, probe))
       ELSE /\ trace' = Traced(DiscoverReply("not_found_400", NoSid, probe))
            /\ UNCHANGED <<servers, bridges, disk>>
  /\ UNCHANGED <<next_port, procs, tasks, pc, issued>>

NextDiscover ==
  \/ \E u \in {"u1", "u2"}, p \in Probes, t \in Clock : discover_route(u, p, t)
       /\ UNCHANGED others
  \/ \E u \in BaseUrls, n \in RequestNames, found \in BOOLEAN, t \in Clock :
       create_bridge(u, n, found, t) /\ UNCHANGED others
  \/ \E outcome \in [Dom(servers) -> Outcomes], t \in Clock : health_check_task(outcome, t)
       /\ UNCHANGED others

SpecDiscover == Init /\ [][NextDiscover]_vars

\* ------------------------------------------------------ startup: load_data
\* A snapshot file as load_data meets it: whether json.load accepts it, and its records
\* in file order, each with its key, its fields, and whether the fields fit the
\* dataclass and its timestamps are ISO text (ok) or the constructor or fromisoformat
\* raises on them. A file that does not exist reads like one without records.
FilesOf(records) ==
  {[parses |-> FALSE, records |-> <<>>]} \cup
  {[parses |-> TRUE, records |-> r] :
     r \in UNION {{q \in [1..n -> records] :
                     \A i, j \in 1..n : i # j => q[i].id # q[j].id} : n \in 0..MaxRecords}}

ServerOnFile(u) == SerServer(NewServer(u, NoName, 0))

ServerFiles ==
  FilesOf({[id |-> ServerId(ServerOnFile(u)), data |-> ServerOnFile(u), ok |-> k] :
             u \in {"u1", "u2"}, k \in BOOLEAN})

BridgeOnFile(n) == SerBridge(NewBridge(NewServer("u1", NoName, 0), PortBase + n - 1, 0))

BridgeFiles ==
  FilesOf({[id |-> BridgeId(n, 0), data |-> BridgeOnFile(n), ok |-> k] :
             n \in 1..MaxBridges, k \in BOOLEAN})

\* The records of a file that are in front of the first one load_data raises on.
Readable(file) ==
  LET bad == {i \in 1..Len(file.records) : ~file.records[i].ok}
  IN IF bad = {} THEN Len(file.records)
     ELSE (CHOOSE i \in bad : \A j \in bad : i <= j) - 1

\* Whether reading the file raises: json.load, the constructor or fromisoformat.
Raises(file) == ~file.parses \/ Readable(file) < Len(file.records)

\* The loop over data.items(): every record is stored as soon as it is built, so those
\* in front of the record that raises stay in the store.
ReadServers(file) ==
  [id \in {file.records[i].id : i \in 1..Readable(file)} |->
     LoadServer((CHOOSE r \in {file.records[i] : i \in 1..Readable(file)} : r.id = id).data)]

ReadBridges(file) ==
  [id \in {file.records[i].id : i \in 1..Readable(file)} |->
     LoadBridge((CHOOSE r \in {file.records[i] : i \in 1..Readable(file)} : r.id = id).data)]

Loading == [kind |-> "load_data"]

\* MCPBridgeRegistry.__init__ up to the call of load_data(), on any data directory.
InitStartup ==
  /\ disk \in [servers : ServerFiles, bridges : BridgeFiles]
  /\ servers = Empty
  /\ bridges = Empty
  /\ next_port = PortBase
  /\ procs = {}
  /\ tasks = [id \in BridgeIds |-> 0]
  /\ pc = Loading
  /\ issued = <<>>
  /\ trace = <<>>
  /\ monitor = Sleeping
  /\ net = {}
  /\ BridgeInit

\* load_data: one try around both files; an exception while reading servers.json ends
\* the load before bridges.json is opened; the except branch logs and returns.
load_data ==
  /\ pc = Loading
  /\ servers' = ReadServers(disk.servers)
  /\ bridges' = IF Raises(disk.servers) THEN Empty ELSE ReadBridges(disk.bridges)
  /\ pc' = Idle
  /\ UNCHANGED <<next_port, disk, procs, tasks, issued, trace>>

NextStartup == load_data /\ UNCHANGED others

SpecStartup == InitStartup /\ [][NextStartup]_vars

\* ------------------------------------------- bidirectional bridge: records
\* The bridge service (src/bidirectional-bridge/main.py) keeps MCP servers (tool
\* agents) and OpenAPI servers, each collection in a JSON file of its own.

AgentNames == {"a1"}
ToolLists == {<<>>, <<"t1">>, <<"t1", "t2">>}
EndpointLists == {<<>>, <<"op1">>}

\* A discovered record that already lists tools (taken from the configuration entry).
NewMcpServerWithTools(name) ==
  [name              |-> name,
   command           |-> <<"cmd-" \o name>>,
   tools             |-> <<"t1">>,
   status            |-> "stopped",
   process_id        |-> NoPid,
   last_health_check |-> NoTime]

\* MCPServerInfo(id, name, command, description, status="stopped") of discover_mcp_servers.
NewMcpServer(name) ==
  [name              |-> name,
   command           |-> <<"cmd-" \o name>>,
   tools             |-> <<>>,
   status            |-> "stopped",
   process_id        |-> NoPid,
   last_health_check |-> NoTime]

\* OpenAPIServerInfo(id, name, base_url, openapi_url, status, last_seen=datetime.now())
\* of discover_openapi_servers, with the endpoints load_openapi_endpoints found.
NewOpenapiServer(base_url, status, endpoints, t) ==
  [name      |-> Title(base_url),
   base_url  |-> base_url,
   endpoints |-> endpoints,
   status    |-> status,
   last_seen |-> t]

\* BidirectionalBridge.save_data: asdict with datetimes in ISO format.
SerMcp(m) == [m EXCEPT !.last_health_check = IsoFormat(m.last_health_check)]

SerOpenapi(o) == [o EXCEPT !.last_seen = IsoFormat(o.last_seen)]

BridgeSnapshot(mcp, oas) ==
  [mcp_servers     |-> [k \in Dom(mcp) |-> SerMcp(mcp[k])],
   openapi_servers |-> [k \in Dom(oas) |-> SerOpenapi(oas[k])]]

\* BidirectionalBridge.load_data: one record of each file back into an object.
LoadMcp(d) == [d EXCEPT !.last_health_check = FromIso(d.last_health_check)]

LoadOpenapi(d) == [d EXCEPT !.last_seen = FromIso(d.last_seen)]

\* The MCP server records start_mcp_server can leave: as discovered, starting, running
\* with the tools the handshake listed, or error (with or without tools of an earlier
\* start), and the OpenAPI server records discover_openapi_servers can leave.
McpInfos ==
  {[NewMcpServer(n) EXCEPT !.status = st, !.tools = tl, !.last_health_check = t] :
     n \in AgentNames, st \in {"stopped", "starting", "running", "error"},
     tl \in ToolLists, t \in Times \cup {NoTime}}

OpenapiInfos ==
  {NewOpenapiServer(u, st, eps, t) :
     u \in BaseUrls, st \in {"unknown", "online", "offline", "error"},
     eps \in EndpointLists, t \in Times}

\* ------------------------------------------- bidirectional bridge: actions
\* server_id = f"mcp_{uuid.uuid4().hex[:8]}": a fresh id for every discovered record.
McpId(n) == <<"mcp", n>>

McpIds == {McpId(n) : n \in 1..MaxAgents}

\* An id no record was stored under.
UnknownId == McpId(0)

\* The tools the MCP server program lists in answer to session.list_tools().
ToolsOf(server) == <<"t1">>

NoSession == 0

\* What a start call finds on entry: the status, the session in the table and whether
\* that session's stdio context is still open.
Found(id) ==
  [status  |-> mcp_servers[id].status,
   session |-> IF id \in Dom(client_sessions) THEN client_sessions[id] ELSE NoSession,
   live    |-> id \in Dom(client_sessions) /\ client_sessions[id] \in stdio.open]

NotFound == [status |-> "none", session |-> NoSession, live |-> FALSE]

Free(s) == calls[s].at \in {"free", "done"}

\* A request (op "start" for the start route, "invoke" for call_mcp_tool) suspended at
\* the await named by at; session is the ClientSession it works with, entry what it
\* found when it entered start_mcp_server.
Call(op, id, at, session, entry) ==
  [at |-> at, op |-> op, id |-> id, session |-> session, entry |-> entry,
   result |-> "pending"]

\* The reply of a finished request; it stays in its slot until the slot is used again.
Done(call, result) == [call EXCEPT !.at = "done", !.result = result]

\* start_mcp_server for a stored id, up to its first await: server.status = "starting",
\* then `async with stdio_client(server_params)` is entered.
StartEnter(s, op, id) ==
  /\ mcp_servers' = [mcp_servers EXCEPT ![id].status = "starting"]
  /\ calls' = [calls EXCEPT ![s] = Call(op, id, "spawn", NoSession, Found(id))]
  /\ UNCHANGED <<openapi_servers, client_sessions, bridge_disk, stdio>>

\* The except branch of start_mcp_server, after the `async with` blocks were left: the
\* call's session, if it has one, is closed; status "error"; no save_data(). The start
\* route answers 500; call_mcp_tool raises ValueError, which its route answers as 400.
StartFailed(s) ==
  LET c == calls[s]
  IN /\ mcp_servers' = [mcp_servers EXCEPT ![c.id].status = "error"]
     /\ stdio' = [stdio EXCEPT !.open = @ \ {c.session}]
     /\ calls' = [calls EXCEPT ![s] = Done(c, IF c.op = "start" THEN "false" ELSE "raised")]
     /\ UNCHANGED <<openapi_servers, client_sessions, bridge_disk>>

\* discover_mcp_servers: one record under a fresh id for every entry of the
\* configuration, then save_data().
discover_mcp_servers(name) ==
  /\ Cardinality(Dom(mcp_servers)) < MaxAgents
  /\ mcp_servers' = Put(mcp_servers, McpId(Cardinality(Dom(mcp_servers)) + 1),
                        NewMcpServer(name))
  /\ bridge_disk' = BridgeSnapshot(mcp_servers', openapi_servers)
  /\ UNCHANGED <<openapi_servers, client_sessions, calls, stdio>>

\* POST /mcp-servers/{server_id}/start: False at once for an id that is not stored.
start_mcp_server(s, id) ==
  /\ Free(s)
  /\ IF id \in Dom(mcp_servers)
       THEN StartEnter(s, "start", id)
       ELSE /\ calls' = [calls EXCEPT ![s] =
                           Done(Call("start", id, "enter", NoSession, NotFound), "false")]
            /\ UNCHANGED <<mcp_servers, openapi_servers, client_sessions, bridge_disk, stdio>>

\* POST /call-mcp-tool: ValueError for an id that is not stored; a start first when the
\* status is not running or the table has no session for the id; else straight to
\* session.call_tool on the session of the table.
call_mcp_tool(s, id) ==
  /\ Free(s)
  /\ IF id \notin Dom(mcp_servers)
       THEN /\ calls' = [calls EXCEPT ![s] =
                           Done(Call("invoke", id, "enter", NoSession, NotFound), "raised")]
            /\ UNCHANGED <<mcp_servers, openapi_servers, client_sessions, bridge_disk, stdio>>
       ELSE IF mcp_servers[id].status # "running" \/ id \notin Dom(client_sessions)
         THEN StartEnter(s, "invoke", id)
         ELSE /\ calls' = [calls EXCEPT ![s] =
                             Call("invoke", id, "call_tool", client_sessions[id], Found(id))]
              /\ UNCHANGED <<mcp_servers, openapi_servers, client_sessions, bridge_disk, stdio>>

\* stdio_client's __aenter__ launches the server's command as a child process, and
\* ClientSession's __aenter__ opens a session on its pipes; or the launch raises.
spawn(s, ok) ==
  /\ calls[s].at = "spawn"
  /\ IF ok
       THEN /\ stdio.launched < MaxLaunches
            /\ stdio' = [launched |-> stdio.launched + 1,
                         open     |-> stdio.open \cup {stdio.launched + 1}]
            /\ calls' = [calls EXCEPT ![s].at = "initialize",
                                      ![s].session = stdio.launched + 1]
            /\ UNCHANGED <<mcp_servers, openapi_servers, client_sessions, bridge_disk>>
       ELSE StartFailed(s)

\* await session.initialize(): the handshake.
initialize(s, ok) ==
  /\ calls[s].at = "initialize"
  /\ IF ok
       THEN /\ calls' = [calls EXCEPT ![s].at = "list_tools"]
            /\ UNCHANGED <<mcp_servers, openapi_servers, client_sessions, bridge_disk, stdio>>
       ELSE StartFailed(s)

\* await session.list_tools(), then without another await: server.tools, the session
\* into client_sessions, status "running", last_health_check, save_data(); `return True`
\* then leaves the two `async with` blocks, which awaits their __aexit__.
list_tools(s, ok, t) ==
  /\ calls[s].at = "list_tools"
  /\ IF ok
       THEN LET c == calls[s]
            IN /\ mcp_servers' = [mcp_servers EXCEPT
                                    ![c.id].tools = ToolsOf(mcp_servers[c.id]),
                                    ![c.id].status = "running",
                                    ![c.id].last_health_check = t]
               /\ client_sessions' = Put(client_sessions, c.id, c.session)
               /\ bridge_disk' = BridgeSnapshot(mcp_servers', openapi_servers)
               /\ calls' = [calls EXCEPT ![s].at = "exit"]
               /\ UNCHANGED <<openapi_servers, stdio>>
       ELSE StartFailed(s)

\* __aexit__ of ClientSession and of stdio_client: the session is closed and the child
\* process is terminated; start_mcp_server returns True. The start route answers 200;
\* call_mcp_tool goes on to session.call_tool with the session of the table.
leave(s) ==
  /\ calls[s].at = "exit"
  /\ LET c == calls[s]
     IN /\ stdio' = [stdio EXCEPT !.open = @ \ {c.session}]
        /\ calls' = [calls EXCEPT ![s] =
                       IF c.op = "start" THEN Done(c, "true")
                       ELSE [c EXCEPT !.at = "call_tool", !.session = client_sessions[c.id]]]
        /\ UNCHANGED <<mcp_servers, openapi_servers, client_sessions, bridge_disk>>

\* await session.call_tool(...): a result, or an exception (always one on a closed
\* session), which call_mcp_tool turns into {"success": False, "error": ...}.
call_tool(s, ok) ==
  /\ calls[s].at = "call_tool"
  /\ ok => calls[s].session \in stdio.open
  /\ calls' = [calls EXCEPT ![s] = Done(calls[s], IF ok THEN "success" ELSE "failure")]
  /\ UNCHANGED <<mcp_servers, openapi_servers, client_sessions, bridge_disk, stdio>>

\* What the routes answer for a finished request. POST /mcp-servers/{id}/start: 200, or
\* HTTPException(500, "Failed to start MCP server") whenever start_mcp_server returned
\* False. POST /call-mcp-tool: the result of call_mcp_tool, or HTTPException(400,
\* str(e)) with the text of the ValueError it raised.
RouteReply(c) ==
  IF c.op = "start"
    THEN IF c.result = "true"
           THEN [status |-> 200, detail |-> "started successfully"]
           ELSE [status |-> 500, detail |-> "Failed to start MCP server"]
  ELSE IF c.result = "raised"
    THEN [status |-> 400,
          detail |-> IF c.entry = NotFound THEN "MCP server not found"
                     ELSE "Could not start MCP server"]
  ELSE [status |-> 200, detail |-> c.result]

NextBridge ==
  \/ \E n \in AgentNames : discover_mcp_servers(n) /\ UNCHANGED registry_vars
  \/ \E s \in Slots, id \in McpIds \cup {UnknownId} :
       start_mcp_server(s, id) /\ UNCHANGED registry_vars
  \/ \E s \in Slots, id \in McpIds \cup {UnknownId} :
       call_mcp_tool(s, id) /\ UNCHANGED registry_vars
  \/ \E s \in Slots, ok \in BOOLEAN : spawn(s, ok) /\ UNCHANGED registry_vars
  \/ \E s \in Slots, ok \in BOOLEAN : initialize(s, ok) /\ UNCHANGED registry_vars
  \/ \E s \in Slots, ok \in BOOLEAN, t \in Clock : list_tools(s, ok, t) /\ UNCHANGED registry_vars
  \/ \E s \in Slots : leave(s) /\ UNCHANGED registry_vars
  \/ \E s \in Slots, ok \in BOOLEAN : call_tool(s, ok) /\ UNCHANGED registry_vars

SpecBridge == Init /\ [][NextBridge]_vars

\* ------------------------------------------- bidirectional bridge: restart
\* The bridge service is shut down while no request is in progress and started again:
\* BidirectionalBridge.__init__ with empty collections and an empty session table, then
\* load_data() on the files the earlier instance wrote. The child processes of the
\* earlier instance ended with it.
restart ==
  /\ \A s \in Slots : Free(s)
  /\ mcp_servers' = [k \in Dom(bridge_disk.mcp_servers) |->
                       LoadMcp(bridge_disk.mcp_servers[k])]
  /\ openapi_servers' = [k \in Dom(bridge_disk.openapi_servers) |->
                           LoadOpenapi(bridge_disk.openapi_servers[k])]
  /\ client_sessions' = Empty
  /\ calls' = [s \in Slots |-> NoCall]
  /\ stdio' = [stdio EXCEPT !.open = {}]
  /\ UNCHANGED bridge_disk

\* One request at a time, discovery between its awaits, and restarts.
NextRestart ==
  \/ \E n \in AgentNames : discover_mcp_servers(n) /\ UNCHANGED registry_vars
  \/ \E id \in McpIds \cup {UnknownId} : start_mcp_server(1, id) /\ UNCHANGED registry_vars
  \/ \E id \in McpIds \cup {UnknownId} : call_mcp_tool(1, id) /\ UNCHANGED registry_vars
  \/ \E ok \in BOOLEAN : spawn(1, ok) /\ UNCHANGED registry_vars
  \/ \E ok \in BOOLEAN : initialize(1, ok) /\ UNCHANGED registry_vars
  \/ \E ok \in BOOLEAN, t \in Clock : list_tools(1, ok, t) /\ UNCHANGED registry_vars
  \/ leave(1) /\ UNCHANGED registry_vars
  \/ \E ok \in BOOLEAN : call_tool(1, ok) /\ UNCHANGED registry_vars
  \/ restart /\ UNCHANGED registry_vars

SpecRestart == Init /\ [][NextRestart]_vars

\* ------------------------------------ bidirectional bridge: discover_openapi_servers
\* server_id = f"openapi_{uuid.uuid4().hex[:8]}": a fresh id for every listed server.
OpenapiId(n) == <<"openapi", n>>

\* One entry of the "servers" list that GET http://localhost:9000/servers returned:
\* with the keys name, base_url and openapi_url (complete), or with one of them
\* missing, on which server_data[...] raises KeyError.
ServerData == [base_url : {"u1", "u2"}, status : {"online"}, complete : BOOLEAN]

\* What the GET gives: an exception or a status other than 200, or a list of entries.
Listings ==
  {[kind |-> "failed", servers |-> <<>>]} \cup
  {[kind |-> "listed", servers |-> l] : l \in UNION {[1..n -> ServerData] : n \in 0..MaxListed}}

\* The loop body up to `await self.load_openapi_endpoints(server)` for the entry at
\* index i of the list, or what follows the loop: OpenAPIServerInfo(...) raises KeyError
\* on an incomplete entry, and the except branch returns [] without save_data(); after
\* the last entry save_data() is called and the list of the new records is returned.
LoopAt(c, i, store) ==
  IF i > Len(c.listed)
    THEN [call |-> [c EXCEPT !.at = "done", !.result = c.stored],
          disk |-> BridgeSnapshot(mcp_servers, store)]
  ELSE IF ~c.listed[i].complete
    THEN [call |-> [c EXCEPT !.at = "done", !.result = <<>>], disk |-> bridge_disk]
  ELSE [call |-> [c EXCEPT !.at = "load_openapi_endpoints", !.index = i], disk |-> bridge_disk]

\* POST /discover: discover_openapi_servers() from its call to its first suspension
\* inside the loop (or to its return); entry is the collection's key set at the call.
discover_openapi_servers(s, listing) ==
  /\ Free(s)
  /\ Cardinality(Dom(openapi_servers)) + Len(listing.servers) <= MaxServices
  /\ LET c == [at |-> "get", op |-> "discover_openapi", listed |-> listing.servers,
               index |-> 0, stored |-> <<>>, entry |-> Dom(openapi_servers),
               result |-> <<>>]
         r == IF listing.kind = "failed"
                THEN [call |-> [c EXCEPT !.at = "done"], disk |-> bridge_disk]
                ELSE LoopAt(c, 1, openapi_servers)
     IN /\ calls' = [calls EXCEPT ![s] = r.call]
        /\ bridge_disk' = r.disk
  /\ UNCHANGED <<mcp_servers, openapi_servers, client_sessions, stdio>>

\* load_openapi_endpoints(server) returned (with the endpoints of the spec, or none when
\* it could not be read): servers.append(server); self.openapi_servers[server_id] =
\* server; then the next entry of the list.
load_openapi_endpoints(s, endpoints, t) ==
  /\ calls[s].at = "load_openapi_endpoints"
  /\ LET c      == calls[s]
         data   == c.listed[c.index]
         id     == OpenapiId(Cardinality(Dom(openapi_servers)) + 1)
         server == NewOpenapiServer(data.base_url, data.status, endpoints, t)
         store  == Put(openapi_servers, id, server)
         r      == LoopAt([c EXCEPT !.stored = Append(c.stored, id)], c.index + 1, store)
     IN /\ openapi_servers' = store
        /\ calls' = [calls EXCEPT ![s] = r.call]
        /\ bridge_disk' = r.disk
  /\ UNCHANGED <<mcp_servers, client_sessions, stdio>>

NextOpenapi ==
  \/ \E l \in Listings : discover_openapi_servers(1, l) /\ UNCHANGED registry_vars
  \/ \E eps \in EndpointLists, t \in Clock :
       load_openapi_endpoints(1, eps, t) /\ UNCHANGED registry_vars

SpecOpenapi == Init /\ [][NextOpenapi]_vars

\* ------------------------------------- bidirectional bridge: call_openapi_endpoint
\* Text is a sequence of characters, so that rstrip and replace work as str's do.
\* str.rstrip('/').
RECURSIVE Rstrip(_)
Rstrip(str) ==
  IF str # <<>> /\ str[Len(str)] = "/" THEN Rstrip(SubSeq(str, 1, Len(str) - 1)) ELSE str

\* str.replace(old, new) for a non-empty old: the occurrences from left to right,
\* without looking again at what was put in.
RECURSIVE Replace(_, _, _)
Replace(str, old, new) ==
  IF Len(str) < Len(old) THEN str
  ELSE IF SubSeq(str, 1, Len(old)) = old
    THEN new \o Replace(SubSeq(str, Len(old) + 1, Len(str)), old, new)
    ELSE <<str[1]>> \o Replace(Tail(str), old, new)

\* f'{{{key}}}'
Token(key) == <<"{">> \o key \o <<"}">>

\* str(value) for the values a path parameter takes here: text, or a one-digit number.
Digit(n) == <<(<<"0", "1", "2", "3", "4", "5", "6", "7", "8", "9">>)[n + 1]>>

Str(value) == IF "int" \in DOMAIN value THEN Digit(value.int) ELSE value.str

\* `for key, value in request.path_params.items(): url = url.replace(...)`: one replace
\* after the other over the whole url, in the order of the mapping.
RECURSIVE ReplaceEach(_, _)
ReplaceEach(url, path_params) ==
  IF path_params = <<>> THEN url
  ELSE ReplaceEach(Replace(url, Token(path_params[1].key), Str(path_params[1].value)),
                   Tail(path_params))

BuildUrl(base_url, path, path_params) == ReplaceEach(Rstrip(base_url) \o path, path_params)

\* The loop that falls back to the first entry when no operation id matches.
RECURSIVE FindEndpointOrFirst(_, _)
FindEndpointOrFirst(endpoints, operation_id) ==
  IF endpoints = <<>> THEN [found |-> FALSE]
  ELSE IF \A i \in 1..Len(endpoints) : endpoints[i].operation_id # operation_id
    THEN [found |-> TRUE, endpoint |-> endpoints[1]]
    ELSE IF endpoints[1].operation_id = operation_id
      THEN [found |-> TRUE, endpoint |-> endpoints[1]]
      ELSE FindEndpointOrFirst(Tail(endpoints), operation_id)

\* The loop without its break: the last entry with the operation id is kept.
RECURSIVE FindEndpointLast(_, _)
FindEndpointLast(endpoints, operation_id) ==
  IF endpoints = <<>> THEN [found |-> FALSE]
  ELSE IF endpoints[Len(endpoints)].operation_id = operation_id
    THEN [found |-> TRUE, endpoint |-> endpoints[Len(endpoints)]]
    ELSE FindEndpointLast(SubSeq(endpoints, 1, Len(endpoints) - 1), operation_id)

\* `for ep in server.endpoints: if ep['operation_id'] == request.operation_id: ... break`
RECURSIVE FindEndpoint(_, _)
FindEndpoint(endpoints, operation_id) ==
  IF endpoints = <<>> THEN [found |-> FALSE]
  ELSE IF endpoints[1].operation_id = operation_id
    THEN [found |-> TRUE, endpoint |-> endpoints[1]]
    ELSE FindEndpoint(Tail(endpoints), operation_id)

\* The entries load_openapi_endpoints builds from the paths of a spec.
Endpoint(operation_id, path, method) ==
  [operation_id |-> operation_id, path |-> path, method |-> method]

GetItem == Endpoint("getItem", <<"/", "i", "/", "{", "i", "}">>, "GET")

GetPair == Endpoint("getPair", <<"/", "{", "i", "}", "/", "{", "j", "}">>, "GET")

PostItem == Endpoint("getItem", <<"/", "i">>, "POST")

Catalogs == {<<>>, <<GetItem, GetPair>>, <<GetItem, PostItem, GetPair>>, <<PostItem, GetItem>>}

CallBases == {<<"b">>, <<"b", "/">>, <<"b", "/", "/">>}

\* The services of an openapi_servers.json written by an earlier discovery.
StoredServices ==
  {[NewOpenapiServer("u1", "online", eps, 0) EXCEPT !.base_url = b] :
     eps \in Catalogs, b \in CallBases}

OperationIds == {"getItem", "getPair", "dropItem"}

Param(key, value) == [key |-> key, value |-> value]

\* request.path_params: None, or a mapping, in its order.
PathParams ==
  {<<>>,
   <<Param(<<"i">>, [str |-> <<"4", "2">>])>>,
   <<Param(<<"i">>, [int |-> 7])>>,
   <<Param(<<"i">>, [str |-> <<"4">>]), Param(<<"j">>, [int |-> 2])>>,
   <<Param(<<"j">>, [str |-> <<"x">>]), Param(<<"i">>, [str |-> <<"{", "j", "}">>])>>,
   <<Param(<<"i">>, [str |-> <<"{", "j", "}">>]), Param(<<"j">>, [str |-> <<"x">>])>>}

OpenAPICallRequest(server_id, operation_id, path_params) ==
  [server_id |-> server_id, operation_id |-> operation_id, path_params |-> path_params]

\* What comes back from client.request: a response with a status code and a body that
\* is empty, JSON or other text, or an exception of the transport.
StatusCodes == {200, 404, 500}

Responses ==
  {[kind |-> "response", status_code |-> c, body |-> b] :
     c \in StatusCodes, b \in {"empty", "json", "text"}}
  \cup {[kind |-> "transport_error"]}

\* The answers of POST /call-openapi: the envelope call_openapi_endpoint returns, or
\* the HTTPException(400) the route makes of its ValueError.
Envelope(response) ==
  [kind |-> "envelope", success |-> TRUE, status_code |-> response.status_code,
   data |-> IF response.body = "empty" THEN "none" ELSE "parsed"]

Failed == [kind |-> "envelope", success |-> FALSE]

Raised(detail) == [kind |-> "http_400", detail |-> detail]

NoRequest == [method |-> "none", url |-> <<>>]

\* BidirectionalBridge.__init__ and load_data() on a data directory with one service.
InitCall ==
  /\ servers = Empty
  /\ bridges = Empty
  /\ next_port = PortBase
  /\ disk = Snapshot(Empty, Empty)
  /\ procs = {}
  /\ tasks = [id \in BridgeIds |-> 0]
  /\ pc = Idle
  /\ issued = <<>>
  /\ trace = <<>>
  /\ monitor = Sleeping
  /\ net = {}
  /\ mcp_servers = Empty
  /\ \E o \in StoredServices :
       /\ bridge_disk = BridgeSnapshot(Empty, Put(Empty, "o1", o))
       /\ openapi_servers = Put(Empty, "o1", LoadOpenapi(SerOpenapi(o)))
  /\ client_sessions = Empty
  /\ calls = [s \in Slots |-> NoCall]
  /\ stdio = [launched |-> 0, open |-> {}]

\* call_openapi_endpoint up to `await client.request(...)`: ValueError for a server id
\* or an operation id that is not found; else the url is built and the request is sent.
call_openapi_endpoint(s, request) ==
  /\ Free(s)
  /\ LET known == request.server_id \in Dom(openapi_servers)
         look  == IF known
                    THEN FindEndpoint(openapi_servers[request.server_id].endpoints,
                                      request.operation_id)
                    ELSE [found |-> FALSE]
         made  == [at |-> "request", op |-> "call_openapi", request |-> request,
                   sent |-> NoRequest, received |-> [kind |-> "nothing"],
                   result |-> [kind |-> "pending"]]
     IN calls' = [calls EXCEPT ![s] =
          IF ~known THEN [made EXCEPT !.at = "done", !.result = Raised("server not found")]
          ELSE IF ~look.found
            THEN [made EXCEPT !.at = "done", !.result = Raised("operation not found")]
            ELSE [made EXCEPT !.sent =
                    [method |-> look.endpoint.method,
                     url    |-> BuildUrl(openapi_servers[request.server_id].base_url,
                                         look.endpoint.path, request.path_params)]]]
  /\ UNCHANGED <<mcp_servers, openapi_servers, client_sessions, bridge_disk, stdio>>

\* The rest of call_openapi_endpoint: the envelope of the response, with response.json()
\* when the body is not empty; any exception, of the transport or of json(), gives
\* {"success": False, "error": ...}.
request_returns(s, response) ==
  /\ calls[s].at = "request"
  /\ calls' = [calls EXCEPT ![s].at = "done",
                            ![s].received = response,
                            ![s].result =
                              IF response.kind = "response" /\ response.body # "text"
                                THEN Envelope(response)
                                ELSE Failed]
  /\ UNCHANGED <<mcp_servers, openapi_servers, client_sessions, bridge_disk, stdio>>

CallSlots == {1}

NextCall ==
  \/ \E s \in CallSlots, id \in {"o1", "o2"}, op \in OperationIds, pp \in PathParams :
       call_openapi_endpoint(s, OpenAPICallRequest(id, op, pp)) /\ UNCHANGED registry_vars
  \/ \E s \in CallSlots, r \in Responses : request_returns(s, r) /\ UNCHANGED registry_vars

SpecCall == InitCall /\ [][NextCall]_vars

\* ----------------------------------------------------- health monitor
\* The sweep of health_check_task probe by probe: every await client.get(url) is a
\* point where request handlers run.

\* The addresses POST /discover is asked about while the monitor runs.
HealthUrls == {"u1", "u2"}

\* endpoints_to_try with the base address in front of the spec address.
EndpointsBaseFirst(server) ==
  <<"base", "spec">> \o
    (IF server.health_endpoint # "" /\ server.health_endpoint # "/health"
       THEN <<"health">>
       ELSE <<>>)

\* endpoints_to_try of health_check_server: server.openapi_url, "/", and
\* server.health_endpoint when one is set that is not the default "/health".
Endpoints(server) ==
  <<"spec", "base">> \o
    (IF server.health_endpoint # "" /\ server.health_endpoint # "/health"
       THEN <<"health">>
       ELSE <<>>)

\* What await client.get(url) gives: a response below 400, a response of 400 or
\* more, or an exception (connection refused, timeout).
Answers == {"ok", "http_error", "exception"}

\* The bridges, whose openapi_server is the object of the store where linked.
Seen(brs, srv) ==
  [k \in Dom(brs) |->
     IF brs[k].linked
       THEN [brs[k] EXCEPT !.openapi_server = srv[ServerId(brs[k].openapi_server)]]
       ELSE brs[k]]

\* self.servers[server_id] = server while a health check holds the object stored
\* there before: the check goes on with the object that is no longer stored.
Replaced(sid) ==
  IF monitor.kind = "probing" /\ monitor.sid = sid
    THEN [monitor EXCEPT !.stale = TRUE]
    ELSE monitor

\* Some probe address of the server answers below 400 from now on.
Healed(sid) == \E e \in {"spec", "base"} : <<sid[2], e>> \in net

\* health_check_task from the for statement's next() to its next suspension, with
\* stores srv and brs; size is the number of servers the dict held when the iteration
\* began and done the servers attempted so far. next() raises RuntimeError when the
\* dict has changed size: the except branch of the task logs it and sleeps, without
\* save_data(). The servers of F are those for which httpx.AsyncClient cannot be set
\* up: the outer except of health_check_server marks them "error" and the loop goes on.
\* When the loop runs out, save_data() is called and the task sleeps; otherwise it is
\* suspended at the first probe of a server s. The order in which the dict yields the
\* servers is left open.
SweepOn(srv, brs, size, done, check) ==
  IF Cardinality(Dom(srv)) # size
    THEN /\ servers' = srv
         /\ bridges' = brs
         /\ monitor' = Asleep(check, "cut", done, Dom(srv))
         /\ UNCHANGED disk
    ELSE \E F \in SUBSET (Dom(srv) \ done) :
           LET srv2 == [k \in Dom(srv) |->
                          IF k \in F THEN Checked(srv[k], "error", NoTime) ELSE srv[k]]
               brs2 == Seen(brs, srv2)
               rest == Dom(srv) \ (done \cup F)
           IN /\ \A k \in F : ~Healed(k)
              /\ servers' = srv2
              /\ bridges' = brs2
              /\ IF rest = {}
                   THEN /\ monitor' = Asleep(check, "saved", done \cup F, Dom(srv))
                        /\ disk' = Snapshot(srv2, brs2)
                   ELSE /\ \E s \in rest :
                             monitor' = [kind   |-> "probing",
                                         size   |-> size,
                                         done   |-> done \cup F,
                                         sid    |-> s,
                                         stale  |-> FALSE,
                                         todo   |-> Endpoints(srv2[s]),
                                         probes |-> <<>>,
                                         check  |-> check]
                        /\ UNCHANGED disk

\* health_check_task wakes up: for server in registry.servers.values()
sweep_start ==
  /\ pc = Idle
  /\ monitor.kind = "sleeping"
  /\ SweepOn(servers, bridges, Cardinality(Dom(servers)), {}, monitor.check)
  /\ UNCHANGED <<next_port, procs, tasks, pc, issued, trace, net, bridge_vars>>

\* health_check_server resumed by the outcome of await client.get(url): below 400 it
\* stamps last_seen, sets "online" and returns; otherwise it goes to the next endpoint,
\* and after the last one sets "offline" and returns. On return the sweep goes on.
probe_answer(answer, t) ==
  /\ pc = Idle
  /\ monitor.kind = "probing"
  /\ LET s      == monitor.sid
         e      == Head(monitor.todo)
         probes == Append(monitor.probes, <<e, answer>>)
     IN /\ <<s[2], e>> \in net => answer = "ok"
        /\ IF answer # "ok" /\ Tail(monitor.todo) # <<>>
             THEN /\ monitor' = [monitor EXCEPT !.todo = Tail(monitor.todo), !.probes = probes]
                  /\ UNCHANGED <<servers, bridges, disk>>
             ELSE LET verdict == IF answer = "ok" THEN "online" ELSE "offline"
                      srv1    == IF monitor.stale
                                   THEN servers
                                   ELSE [servers EXCEPT ![s] = Checked(@, verdict, t)]
                  IN SweepOn(srv1, Seen(bridges, srv1), monitor.size, monitor.done \cup {s},
                             [sid |-> s, probes |-> probes, verdict |-> verdict])
  /\ UNCHANGED <<next_port, procs, tasks, pc, issued, trace, net, bridge_vars>>

\* From now on the address answers every probe below 400.
heal(base_url, e) ==
  /\ net = {}
  /\ net' = {<<base_url, e>>}
  /\ UNCHANGED <<servers, bridges, next_port, disk, procs, tasks, pc, issued, trace, monitor,
                 bridge_vars>>

\* POST /discover and POST /bridges while the monitor runs.
discover_during_sweep(base_url, t) ==
  /\ discover_server(base_url, TRUE, t)
  /\ monitor' = Replaced(ServerId(NewServer(base_url, NoName, t)))
  /\ UNCHANGED <<net, bridge_vars>>

create_during_sweep(base_url, req_name, t) ==
  /\ create_bridge(base_url, req_name, TRUE, t)
  /\ monitor' = Replaced(ServerId(NewServer(base_url, req_name, t)))
  /\ UNCHANGED <<net, bridge_vars>>

NextHealth ==
  \/ sweep_start
  \/ \E answer \in Answers, t \in Clock : probe_answer(answer, t)
  \/ \E u \in HealthUrls, t \in Clock : discover_during_sweep(u, t)
  \/ \E u \in BaseUrls, n \in RequestNames, t \in Clock : create_during_sweep(u, n, t)

\* A servers.json whose one server was written with a health endpoint of its own and
\* the dataclass defaults for last_seen and status.
ConfiguredServer ==
  [NewServer("u1", NoName, 0) EXCEPT !.health_endpoint = "/healthz",
                                     !.status = "unknown",
                                     !.last_seen = NoTime]

ConfiguredDisk == Snapshot(Put(Empty, ServerId(ConfiguredServer), ConfiguredServer), Empty)

\* MCPBridgeRegistry.__init__ and load_data() on an empty data directory or on that one.
InitHealth ==
  /\ disk \in {Snapshot(Empty, Empty), ConfiguredDisk}
  /\ servers = [k \in Dom(disk.servers) |-> LoadServer(disk.servers[k])]
  /\ bridges = [k \in Dom(disk.bridges) |-> LoadBridge(disk.bridges[k])]
  /\ next_port = PortBase
  /\ procs = {}
  /\ tasks = [id \in BridgeIds |-> 0]
  /\ pc = Idle
  /\ issued = <<>>
  /\ trace = <<>>
  /\ monitor = Sleeping
  /\ net = {}
  /\ BridgeInit

SpecHealth == InitHealth /\ [][NextHealth]_vars

\* The monitor and the discover route alone, with an address that heals. The task is
\* scheduled again after every sleep and every probe ends, by an answer or by the
\* client's timeout.
NextHeal ==
  \/ sweep_start
  \/ \E answer \in Answers, t \in Clock : probe_answer(answer, t)
  \/ \E u \in HealthUrls, t \in Clock : discover_during_sweep(u, t)
  \/ \E u \in HealthUrls, e \in {"spec", "base"} : heal(u, e)

SpecHeal ==
  /\ InitHealth
  /\ [][NextHeal]_vars
  /\ WF_vars(sweep_start)
  /\ WF_vars(\E answer \in Answers, t \in Clock : probe_answer(answer, t))

\* ------------------------------------------------------------- claims
Completed == pc = Idle /\ trace # <<>>

TwoStarts ==
  /\ Len(trace) = 2
  /\ trace[1].op \in StartOps
  /\ trace[2].op \in StartOps

\* C1: the ports get_next_port hands out in one process are strictly increasing from
\* the configured base, so every create gets a port never handed out before, and no
\* two stored bridges share a port, also after an earlier bridge was stopped and deleted.
C1_PortsNeverReused ==
  /\ \A i \in 1..Len(issued) : issued[i] = PortBase + i - 1
  /\ \A i, j \in 1..Len(issued) : i < j => issued[i] < issued[j]
  /\ next_port = PortBase + Len(issued)
  /\ \A a \in Dom(bridges) : \E i \in 1..Len(issued) : bridges[a].port = issued[i]
  /\ \A a, b \in Dom(bridges) : a # b => bridges[a].port # bridges[b].port
  /\ (Completed /\ Last.op = "create" /\ Last.result = "created")
       => bridges[Last.id].port = issued[Len(issued)]

\* A create that followed the deletion of an earlier bridge: its port is a new one.
C1_Witness ==
  /\ Completed /\ Last.op = "create" /\ Last.result = "created"
  /\ Len(issued) = 2
  /\ Cardinality(Dom(bridges)) = 1

\* C2: a start_bridge call on a bridge that the call before it left running returns
\* success, launches nothing, and leaves status running with the process identifier
\* the first call left; that one process is the only one tracked for the bridge.
C2_StartOnRunningIsNoOp ==
  (TwoStarts /\ pc = Idle /\ trace[1].result = "true")
    => /\ trace[2].result = "true"
       /\ trace[2].pid = NoPid
       /\ Last.id \in Dom(bridges)
       /\ bridges[Last.id].status = "running"
       /\ bridges[Last.id].process_id = trace[1].process_id
       /\ bridges[Last.id].process_id \in procs

\* Two start calls in sequence, the first of which launched the process.
C2_Witness ==
  /\ TwoStarts /\ pc = Idle
  /\ trace[1].result = "true"
  /\ trace[1].pid # NoPid
  /\ trace[2].result = "true"

\* C3 as claimed: after two start_bridge calls for one id (the automatic start of the
\* create route and an explicit start, in either order) exactly one process has been
\* launched for the id, and both callers got the same result.
C3_Original ==
  (TwoStarts /\ pc = Idle)
    => /\ ~(trace[1].pid # NoPid /\ trace[2].pid # NoPid)
       /\ Last.id \in Dom(bridges)
       /\ bridges[Last.id].process_id \in procs
       /\ trace[1].result = trace[2].result

\* C3 as amended: the two calls never both launch a process; a caller gets success
\* exactly when it leaves the bridge running; once one call has succeeded the next
\* succeeds without launching; after a failed launch the next caller launches again,
\* so the results may differ and no process may have been launched at all.
C3_ConcurrentStartsLaunchAtMostOnce ==
  (TwoStarts /\ pc = Idle)
    => /\ ~(trace[1].pid # NoPid /\ trace[2].pid # NoPid)
       /\ \A i \in 1..2 : (trace[i].result = "true") <=> (trace[i].status = "running")
       /\ \A i \in 1..2 : (trace[i].result = "false") <=> (trace[i].status = "error")
       /\ trace[1].result = "true" => (trace[2].result = "true" /\ trace[2].pid = NoPid)
       /\ trace[2].pid # NoPid => trace[1].result = "false"

\* The automatic start of the create route and an explicit start, one after the other:
\* the first one's launch failed and the second one launched the process.
C3_Witness ==
  /\ TwoStarts /\ pc = Idle
  /\ trace[1].op # trace[2].op
  /\ trace[1].result = "false"
  /\ trace[2].pid # NoPid

\* The status changes of section 4.4: start, launch success, launch failure, stop, retry.
StateMachine ==
  {<<"stopped", "starting">>, <<"starting", "running">>, <<"starting", "error">>,
   <<"running", "stopped">>, <<"error", "starting">>}

\* Bridge id holds the same record before and after the step (a port belongs to one record).
SameRecord(id) ==
  /\ id \in Dom(bridges)
  /\ id \in Dom(bridges')
  /\ bridges[id].port = bridges'[id].port

StatusChange(id) == <<bridges[id].status, bridges'[id].status>>

Changed(id) == SameRecord(id) /\ bridges[id].status # bridges'[id].status

\* What a reload does to the status of bridge id: load_data() replaces the status in
\* memory by the one in bridges.json.
ReloadChange(id) == <<bridges[id].status, LoadBridge(disk.bridges[id]).status>>

Reloaded(id) ==
  /\ id \in Dom(bridges)
  /\ id \in Dom(disk.bridges)
  /\ ReloadChange(id)[1] # ReloadChange(id)[2]

\* C4 as claimed: every status change of a bridge, by a request or by a reload of the
\* snapshot, is one of the five transitions of the state machine; in particular
\* error -> stopped never happens.
C4_Original ==
  /\ [][\A id \in BridgeIds : Changed(id) => StatusChange(id) \in StateMachine]_vars
  /\ [](\A id \in BridgeIds : Reloaded(id) => ReloadChange(id) \in StateMachine)

\* C4 as amended: every status change a request makes is one of the five transitions
\* or error -> stopped, which stop_bridge makes on a bridge whose launch failed; a reload
\* of the snapshot at any moment changes a status only from error to stopped (the error
\* of a failed start is not saved by start_bridge), or from starting back to the stopped
\* or error that the start found.
C4_StatusTransitions ==
  /\ [][\A id \in BridgeIds :
          Changed(id) => StatusChange(id) \in StateMachine \cup {<<"error", "stopped">>}]_vars
  /\ [](\A id \in BridgeIds :
          Reloaded(id) => ReloadChange(id) \in {<<"error", "stopped">>,
                                                <<"starting", "stopped">>,
                                                <<"starting", "error">>})

\* A stop request that took a bridge from error to stopped.
C4_Witness ==
  /\ Completed /\ Last.op = "stop"
  /\ Last.was = "error"
  /\ Last.status = "stopped"

\* C5: in every state, a bridge with status running has a process identifier, and so
\* has every bridge the snapshot would load as running.
C5_RunningHasProcessId ==
  /\ \A id \in Dom(bridges) :
       bridges[id].status = "running" => bridges[id].process_id # NoPid
  /\ \A id \in Dom(disk.bridges) :
       LoadBridge(disk.bridges[id]).status = "running"
         => LoadBridge(disk.bridges[id]).process_id # NoPid

\* A stop whose kill command could not be run leaves the bridge running, with its process.
C5_Witness ==
  /\ Completed /\ Last.op = "stop" /\ Last.result = "false"
  /\ bridges[Last.id].status = "running"
  /\ bridges[Last.id].process_id # NoPid

\* C6 as claimed: when start_bridge returns False, the bridge's status is error in
\* memory and in the snapshot on disk.
C6_Original ==
  (Completed /\ Last.op \in StartOps /\ Last.result = "false")
    => /\ Last.id \in Dom(bridges)
       /\ bridges[Last.id].status = "error"
       /\ Last.id \in Dom(disk.bridges)
       /\ disk.bridges[Last.id].status = "error"

\* C7 as claimed: after stop_bridge on a stored bridge the status is stopped, the
\* process identifier and the port are cleared and the snapshot says so; a second stop
\* changes nothing and signals nothing.
C7_Original ==
  (Completed /\ Last.op = "stop" /\ Last.result # "notfound")
    => /\ bridges[Last.id].status = "stopped"
       /\ bridges[Last.id].process_id = NoPid
       /\ \A i \in 1..Len(issued) : bridges[Last.id].port # issued[i]
       /\ disk.bridges[Last.id].status = "stopped"
       /\ Len(trace) = 2 => (trace[2].pid = NoPid /\ trace[2].status = trace[1].status)

\* C7 as amended: stop_bridge on a stored bridge either returns True, with status
\* stopped and the process identifier cleared in memory and in the snapshot, or, when
\* the kill command cannot be run, returns False and leaves the bridge as it was; the
\* bridge keeps its port, which the allocator does not hand out again; a stop right
\* after a successful stop returns True, changes nothing and signals nothing.
C7_StopIdempotent ==
  (Completed /\ Last.op = "stop" /\ Last.result # "notfound")
    => LET b == bridges[Last.id]
           d == disk.bridges[Last.id]
       IN /\ Last.result = "true" =>
               /\ b.status = "stopped" /\ b.process_id = NoPid
               /\ d.status = "stopped" /\ d.process_id = NoPid
          /\ Last.result = "false" =>
               /\ Last.pid = NoPid
               /\ b.status = Last.was /\ b.status # "stopped"
               /\ b.process_id \in procs
          /\ \E i \in 1..Len(issued) : b.port = issued[i]
          /\ b.port < next_port
          /\ (Len(trace) = 2 /\ trace[1].result = "true") =>
               /\ trace[2].result = "true"
               /\ trace[2].was = "stopped"
               /\ trace[2].pid = NoPid

\* Two stops in sequence, the first of which signalled the bridge's process.
C7_Witness ==
  /\ Completed /\ Len(trace) = 2 /\ Last.op = "stop"
  /\ trace[1].pid # NoPid
  /\ trace[2].result = "true"

\* C8 as claimed: a bridge is removed only after it was stopped: the record that is
\* removed is not running and holds no process identifier, and a running bridge's
\* process was signalled.
C8_Original ==
  (Completed /\ Last.op = "delete" /\ Last.result = "deleted")
    => /\ Last.status # "running"
       /\ Last.process_id = NoPid
       /\ Last.was = "running" => Last.pid # NoPid

\* C9: a create whose discovery returned nothing reports the discovery failure and
\* leaves the bridges, the servers, the port counter, the snapshot and the scheduled
\* tasks as they were.
C9_FailedDiscoveryCreatesNothing ==
  [][(trace' # trace /\ trace'[Len(trace')].op = "create"
        /\ trace'[Len(trace')].result = "discovery_failed")
       => /\ bridges' = bridges
          /\ servers' = servers
          /\ next_port' = next_port
          /\ disk' = disk
          /\ tasks' = tasks
          /\ procs' = procs]_vars

\* A failed create while a bridge is stored.
C9_Witness ==
  /\ Completed /\ Last.op = "create" /\ Last.result = "discovery_failed"
  /\ Dom(bridges) # {}

\* A step that takes a bridge out of status stopped.
LeavesStopped(id) ==
  /\ SameRecord(id)
  /\ bridges[id].status = "stopped"
  /\ bridges'[id].status # "stopped"

\* C10 as claimed: a created bridge leaves status stopped only by a start request.
C10_Original ==
  [][\A id \in BridgeIds :
       LeavesStopped(id) => (pc'.kind = "starting" /\ pc'.id = id /\ pc'.op = "start")]_vars

\* C10 as amended: a successful create stores the bridge stopped, without a process
\* identifier, launches nothing itself and schedules one start_bridge call for it; the
\* bridge leaves status stopped only in a start_bridge call, the scheduled one or a
\* requested one.
C10_CreateStoresStoppedAndSchedulesStart ==
  /\ []((Completed /\ Last.op = "create" /\ Last.result = "created")
          => (Last.status = "stopped" /\ Last.process_id = NoPid))
  /\ [][/\ \A id \in BridgeIds :
             LeavesStopped(id) =>
               /\ pc'.kind = "starting" /\ pc'.id = id /\ pc'.op \in StartOps
               /\ pc'.op = "autostart" => tasks'[id] = tasks[id] - 1
        /\ (trace' # trace /\ trace'[Len(trace')].op = "create"
              /\ trace'[Len(trace')].result = "created")
             => /\ procs' = procs
                /\ tasks'[trace'[Len(trace')].id] = tasks[trace'[Len(trace')].id] + 1]_vars

\* The start scheduled by the create route launched the bridge's process.
C10_Witness ==
  /\ Completed /\ Last.op = "autostart"
  /\ Last.was = "stopped"
  /\ Last.pid # NoPid

\* ------------------------------------------------ claims: health monitor
ProbeOrder == <<"spec", "base", "health">>

\* The probes are made in the order spec, base, health, and no probe follows one that
\* was answered below 400.
InOrder(probes) ==
  /\ Len(probes) <= Len(ProbeOrder)
  /\ \A i \in 1..Len(probes) : probes[i][1] = ProbeOrder[i]
  /\ \A i \in 1..(Len(probes) - 1) : probes[i][2] # "ok"

\* The step in which the health check of monitor.sid returns.
CheckEnds == monitor.kind = "probing" /\ monitor.sid \in monitor'.done

\* C11: the probes of one health check run in the order spec address, base address,
\* configured health path and stop at the first one answered below 400: when the spec
\* address answers below 400 it is the only probe, and the server becomes online with
\* last_seen stamped.
C11_ProbesInOrderStopAtFirstSuccess ==
  /\ [](/\ InOrder(monitor.check.probes)
        /\ monitor.kind = "probing" =>
             /\ InOrder(monitor.probes)
             /\ \A i \in 1..Len(monitor.probes) : monitor.probes[i][2] # "ok"
        /\ (monitor.check.probes # <<>> /\ monitor.check.probes[1][2] = "ok") =>
             /\ Len(monitor.check.probes) = 1
             /\ monitor.check.verdict = "online")
  /\ [][(CheckEnds /\ ~monitor.stale /\ monitor'.check.probes[1][2] = "ok") =>
          /\ servers'[monitor.sid].status = "online"
          /\ servers'[monitor.sid].last_seen \in Times]_vars

\* The spec address of the server with a configured health path answered below 400:
\* one probe was made and the server, never seen before, is online and stamped.
C11_Witness ==
  /\ monitor.kind = "sleeping"
  /\ monitor.check.sid = ServerId(ConfiguredServer)
  /\ monitor.check.probes = <<(<<"spec", "ok">>)>>
  /\ servers[monitor.check.sid].health_endpoint = "/healthz"
  /\ servers[monitor.check.sid].status = "online"
  /\ servers[monitor.check.sid].last_seen # NoTime


Answered(probes, a) == \E i \in 1..Len(probes) : probes[i][2] = a

\* C12 as claimed: a health check ends online when some probe was answered below 400,
\* error when none was and some probe failed with an exception, and offline when every
\* probe was answered and none below 400.
C12_Original ==
  monitor.check.verdict # "none" =>
    LET probes == monitor.check.probes IN
    /\ Answered(probes, "ok") => monitor.check.verdict = "online"
    /\ (~Answered(probes, "ok") /\ Answered(probes, "exception"))
         => monitor.check.verdict = "error"
    /\ (~Answered(probes, "ok") /\ ~Answered(probes, "exception"))
         => monitor.check.verdict = "offline"

\* C13 as claimed: when a sweep ends, it has attempted every server that is in the store.
C13_Original ==
  (monitor.kind = "sleeping" /\ monitor.ended # "never") => monitor.done = monitor.store

\* A step of the sweep.
SweepStep == sweep_start \/ \E answer \in Answers, t \in Clock : probe_answer(answer, t)

\* C14: a step of the sweep leaves the set of server ids, every server attribute other
\* than status and last_seen, every bridge's id, port, status, process identifier and
\* timestamps, the port counter, the processes and the scheduled tasks as they were, and
\* changes last_seen only of a server it marks online.
C14_SweepChangesOnlyLiveness ==
  [][SweepStep =>
       /\ Dom(servers') = Dom(servers)
       /\ \A k \in Dom(servers) :
            /\ [servers'[k] EXCEPT !.status = "", !.last_seen = NoTime]
                 = [servers[k] EXCEPT !.status = "", !.last_seen = NoTime]
            /\ servers'[k].last_seen # servers[k].last_seen
                 => /\ servers'[k].status = "online"
                    /\ CheckEnds /\ monitor.sid = k
       /\ Dom(bridges') = Dom(bridges)
       /\ \A k \in Dom(bridges) :
            [bridges'[k] EXCEPT !.openapi_server = ""] = [bridges[k] EXCEPT !.openapi_server = ""]
       /\ next_port' = next_port
       /\ procs' = procs
       /\ tasks' = tasks
       /\ issued' = issued]_vars

\* A sweep marked the server of a stored bridge offline and saved.
C14_Witness ==
  /\ monitor.kind = "sleeping"
  /\ monitor.ended = "saved"
  /\ monitor.check.verdict = "offline"
  /\ monitor.check.sid \in Dom(servers)
  /\ servers[monitor.check.sid].status = "offline"
  /\ \E b \in Dom(bridges) :
       /\ bridges[b].linked
       /\ bridges[b].openapi_server.status = "offline"


\* The server stored for address u, as the discover route names it.
SidOf(u) == ServerId(NewServer(u, NoName, 0))

Down(u) ==
  /\ SidOf(u) \in Dom(servers)
  /\ servers[SidOf(u)].status \in {"offline", "error"}

Up(u) ==
  /\ SidOf(u) \in Dom(servers)
  /\ servers[SidOf(u)].status = "online"

Reloaded_servers ==
  LET snap == Snapshot(servers, bridges)
  IN [k \in Dom(snap.servers) |-> LoadServer(snap.servers[k])]

Reloaded_bridges ==
  LET snap == Snapshot(servers, bridges)
  IN [k \in Dom(snap.bridges) |-> LoadBridge(snap.bridges[k])]

\* The fields of a bridge apart from the identity of its server object.
Fields(b) == [b EXCEPT !.linked = FALSE]

\* The bridge service's save_data() followed by load_data(), for every MCP server and
\* OpenAPI server record.
BridgeRoundTrip ==
  /\ \A m \in McpInfos :
       LET snap == BridgeSnapshot(Put(Empty, "m1", m), Empty)
       IN Dom(snap.mcp_servers) = {"m1"} /\ LoadMcp(snap.mcp_servers["m1"]) = m
  /\ \A o \in OpenapiInfos :
       LET snap == BridgeSnapshot(Empty, Put(Empty, "o1", o))
       IN Dom(snap.openapi_servers) = {"o1"} /\ LoadOpenapi(snap.openapi_servers["o1"]) = o

C17_Original ==
  pc = Idle =>
    /\ Raises(disk.servers) => servers = Empty
    /\ Raises(disk.bridges) => bridges = Empty


\* C18 as stated: whenever no request and no background start is in progress, the
\* snapshot on disk equals the stores in memory: same ids, statuses, process
\* identifiers and timestamps.
C18_Original ==
  (pc = Idle /\ \A id \in BridgeIds : tasks[id] = 0) => disk = Snapshot(servers, bridges)


\* ---------------------------------------------- claims: shared server object
\* The store's record of the server a bridge was created for.
StoredFor(b) == servers[ServerId(b.openapi_server)]

\* C19 as stated: in every reachable state the status and last_seen seen through a
\* bridge's openapi_server are those of the server stored for it.
C19_Original ==
  \A id \in Dom(bridges) :
    ServerId(bridges[id].openapi_server) \in Dom(servers) =>
      /\ bridges[id].openapi_server.status = StoredFor(bridges[id]).status
      /\ bridges[id].openapi_server.last_seen = StoredFor(bridges[id]).last_seen


\* ------------------------------------------------ claims: MCP server sessions
\* The request in slot s went through start_mcp_server or call_mcp_tool for a server
\* that had status running and an open session in client_sessions when it entered.
EnteredRunning(s) ==
  /\ calls[s].at # "free"
  /\ calls[s].entry.status = "running"
  /\ calls[s].entry.live

\* C20 as stated: a start (explicit, or implicit in an invoke) of an MCP server that is
\* running with a live session launches no process and performs no handshake, works
\* with the session that was in the table, and the explicit start answers success.
C20_Original ==
  \A s \in Slots :
    EnteredRunning(s) =>
      /\ calls[s].at \in {"call_tool", "done"}
      /\ calls[s].session = calls[s].entry.session
      /\ (calls[s].op = "start" /\ calls[s].at = "done") => calls[s].result = "true"


\* The requests that are inside a start attempt for the MCP server id: between
\* status "starting" and the end of the handshake.
Starting(id) ==
  {s \in Slots : calls[s].at \in {"spawn", "initialize", "list_tools"} /\ calls[s].id = id}

\* The sessions opened for the MCP server id whose stdio context is still open.
OpenFor(id) ==
  {calls[s].session : s \in {x \in Slots : /\ calls[x].at \in {"initialize", "list_tools", "exit"}
                                            /\ calls[x].id = id}} \cap stdio.open

\* C21 as stated: for every MCP server id at most one start attempt is in flight and at
\* most one session is open, whatever the interleaving of start and invoke requests.
C21_Original ==
  \A id \in Dom(mcp_servers) :
    /\ Cardinality(Starting(id)) <= 1
    /\ Cardinality(OpenFor(id)) <= 1


\* The step in which session.call_tool of the request in slot s raises.
CallToolFails(s) ==
  /\ calls[s].at = "call_tool"
  /\ calls'[s].at = "done"
  /\ calls'[s].result = "failure"

\* C22 as stated: when a call through a session fails, the caller gets the failed
\* result and the session is no longer in client_sessions, so that the next invoke
\* starts afresh.
C22_Original ==
  [][\A s \in Slots :
       CallToolFails(s) =>
         \/ calls[s].id \notin Dom(client_sessions')
         \/ client_sessions'[calls[s].id] # calls[s].session]_vars


\* The step in which the handshake (initialize or list_tools) of the start made for the
\* request in slot s fails and the request is answered.
HandshakeFails(s) ==
  /\ calls[s].at \in {"initialize", "list_tools"}
  /\ calls'[s].at = "done"

\* C23 as stated: an invoke on a stored MCP server that was never started starts it, and
\* when the handshake of that start fails the invoke is answered with the envelope
\* {success false, error} and the server's status is error.
C23_Original ==
  [][\A s \in Slots :
       (HandshakeFails(s) /\ calls[s].op = "invoke" /\ calls[s].entry.status = "stopped") =>
         /\ calls'[s].result = "failure"
         /\ mcp_servers'[calls[s].id].status = "error"]_vars


\* The step in which a step of the start made for the request in slot s fails: the
\* launch, initialize or list_tools.
StartFails(s) ==
  /\ calls[s].at \in {"spawn", "initialize", "list_tools"}
  /\ calls'[s].at = "done"

\* C24 as stated: when a step of a start fails the start answers failure, the status is
\* error, and client_sessions holds no session for the id, also when an earlier start
\* had stored one.
C24_Original ==
  [][\A s \in Slots :
       StartFails(s) =>
         /\ calls'[s].result \in {"false", "raised"}
         /\ mcp_servers'[calls[s].id].status = "error"
         /\ calls[s].id \notin Dom(client_sessions')]_vars


\* ------------------------------------------------ claims: call_openapi_endpoint
\* The request in slot s was sent downstream and what came back has been answered.
Answered_call(s) ==
  /\ calls[s].at = "done"
  /\ calls[s].op = "call_openapi"
  /\ calls[s].received.kind # "nothing"

\* C25 as stated: every HTTP response that was received, whatever its status code and
\* its body, is answered with success true and its status code; only a failure of the
\* transport is answered with success false.
C25_Original ==
  \A s \in CallSlots :
    Answered_call(s) =>
      IF calls[s].received.kind = "response"
        THEN /\ calls[s].result.kind = "envelope"
             /\ calls[s].result.success
             /\ calls[s].result.status_code = calls[s].received.status_code
        ELSE calls[s].result = Failed


\* The request names a server id that is not stored, or an operation id that no entry
\* of the server's endpoints has.
Missing(request) ==
  \/ request.server_id \notin Dom(openapi_servers)
  \/ \A i \in 1..Len(openapi_servers[request.server_id].endpoints) :
       openapi_servers[request.server_id].endpoints[i].operation_id # request.operation_id

\* C26: a call for a server id or an operation id that is not found is answered with
\* the route's error that says what was not found; no request is sent downstream, no
\* envelope is returned, and the store and its snapshot are unchanged.
C26_MissingIsReportedNothingSent ==
  [][\A s \in CallSlots :
       (calls'[s] # calls[s] /\ calls'[s].op = "call_openapi"
          /\ calls'[s].received.kind = "nothing" /\ Missing(calls'[s].request)) =>
         /\ calls'[s].at = "done"
         /\ calls'[s].result \in {Raised("server not found"), Raised("operation not found")}
         /\ calls'[s].sent = NoRequest
         /\ openapi_servers' = openapi_servers
         /\ bridge_disk' = bridge_disk]_vars

\* A call for a stored server with an operation id it does not have was answered.
C26_Witness ==
  \E s \in CallSlots :
    /\ calls[s].at = "done"
    /\ calls[s].op = "call_openapi"
    /\ calls[s].request.server_id \in Dom(openapi_servers)
    /\ openapi_servers[calls[s].request.server_id].endpoints # <<>>
    /\ Missing(calls[s].request)
    /\ calls[s].result = Raised("operation not found")


\* The value of the mapping for a key, and whether the text starts with the {key} token
\* of some key of the mapping.
ParamAt(str, path_params) ==
  {i \in 1..Len(path_params) :
     /\ Len(str) >= Len(Token(path_params[i].key))
     /\ SubSeq(str, 1, Len(Token(path_params[i].key))) = Token(path_params[i].key)}

\* The path template with each {key} token of it replaced by the text of the value of
\* that key, as the claim describes the address: the tokens are those of the template.
RECURSIVE Substituted(_, _)
Substituted(path, path_params) ==
  IF path = <<>> THEN <<>>
  ELSE IF ParamAt(path, path_params) # {}
    THEN LET p == path_params[CHOOSE i \in ParamAt(path, path_params) : TRUE]
         IN Str(p.value)
              \o Substituted(SubSeq(path, Len(Token(p.key)) + 1, Len(path)), path_params)
    ELSE <<path[1]>> \o Substituted(Tail(path), path_params)

\* The entry of the server's endpoints the request in slot s was sent for.
SentFor(s) ==
  FindEndpoint(openapi_servers[calls[s].request.server_id].endpoints,
               calls[s].request.operation_id).endpoint

\* C27 as stated: the request sent has the method of the entry and goes to the base
\* address without its trailing slash followed by the path template with its {key}
\* tokens replaced by the text of the values of path_params.
C27_Original ==
  \A s \in CallSlots :
    (calls[s].at # "free" /\ calls[s].op = "call_openapi" /\ calls[s].sent # NoRequest) =>
      /\ calls[s].sent.method = SentFor(s).method
      /\ calls[s].sent.url =
           Rstrip(openapi_servers[calls[s].request.server_id].base_url)
             \o Substituted(SentFor(s).path, calls[s].request.path_params)


\* ------------------------------------------------ claims: servers and bridges
\* The bridge id holds the store's own server object (it references the stored server).
References(id) == id \in Dom(bridges) /\ bridges[id].linked

\* C28 as stated, for the operations the registry has: a stored server that a bridge
\* references is not removed from the store and not replaced by another object.
C28_Original ==
  [][\A id \in Dom(bridges) :
       (References(id) /\ id \in Dom(bridges')) =>
         /\ ServerId(bridges[id].openapi_server) \in Dom(servers')
         /\ bridges'[id].linked]_vars


\* A step in which POST /discover was answered, with its reply.
Discovers == trace' # trace /\ trace'[Len(trace')].op = "discover"

\* C29 as stated: when a spec endpoint of the base address answers with an OpenAPI
\* document the discovered server, and nothing else, is stored and saved; when none
\* does, also because of network failures, not-found is reported and the servers and
\* their snapshot are unchanged.
C29_Original ==
  [][Discovers =>
       LET r == trace'[Len(trace')]
       IN IF r.documents
            THEN /\ r.result = "registered"
                 /\ Dom(servers') = Dom(servers) \cup {r.server}
                 /\ \A k \in Dom(servers) \ {r.server} : servers'[k] = servers[k]
                 /\ disk'.servers = Snapshot(servers', bridges').servers
            ELSE /\ r.result = "not_found_400"
                 /\ servers' = servers
                 /\ disk' = disk]_vars


\* A step in which create_bridge stored a bridge: the only one that takes a port.
Creates == next_port' # next_port

\* C30 as stated: a successful create never gets the id of a stored bridge, so it
\* overwrites nothing and the number of stored bridges grows by one.
C30_Original ==
  [][Creates =>
       /\ trace'[Len(trace')].id \notin Dom(bridges)
       /\ Cardinality(Dom(bridges')) = Cardinality(Dom(bridges)) + 1]_vars


\* ------------------------------------------------------- restart
\* The bridges of the store that this instance did not create: their ports are not among
\* the ports its allocator has handed out.
LoadedBefore(id) == \A i \in 1..Len(issued) : issued[i] # bridges[id].port

\* C31 as stated: after a restart that loads bridges from the snapshot, a port issued to
\* a new bridge is greater than the port of every loaded bridge.
C31_Original ==
  [][Creates =>
       \A id \in Dom(bridges) :
         LoadedBefore(id) => bridges[id].port < issued'[Len(issued')]]_vars


\* C32 as stated: when one snapshot file does not parse and the other is well-formed,
\* load_data loads the other collection completely.
C32_Original ==
  pc = Idle =>
    /\ (~disk.servers.parses /\ ~Raises(disk.bridges)) =>
         bridges = ReadBridges(disk.bridges)
    /\ (~disk.bridges.parses /\ ~Raises(disk.servers)) =>
         servers = ReadServers(disk.servers)


\* ------------------------------------------------ claims: sessions after a start
\* The step in which the start request in slot s is answered with success.
StartSucceeds(s) ==
  /\ calls[s].at # "done"
  /\ calls'[s].at = "done"
  /\ calls'[s].op = "start"
  /\ calls'[s].result = "true"

\* C33 as stated: when a start of an MCP server returns success, the session stored for
\* the server in client_sessions is open (its process alive), so that an invoke can be
\* sent through it.
C33_Original ==
  [][\A s \in Slots :
       StartSucceeds(s) =>
         /\ calls'[s].id \in Dom(client_sessions')
         /\ client_sessions'[calls'[s].id] \in stdio'.open]_vars


\* ------------------------------------------------ claims: tools of an MCP server
\* The record of id was running at some earlier point: last_health_check is stamped
\* only together with status "running" (and is part of the saved record).
WasRunning(id) == mcp_servers[id].last_health_check # NoTime

\* C34: an MCP server record with a non-empty tools list has status running or was
\* running earlier; a record enters the store with an empty list, and the list of a
\* stored record changes only in a step that sets status running (never in a failed
\* handshake); the same holds of the records of the snapshot a later instance loads.
C34_ToolsOnlyAfterRunning ==
  /\ [](\A id \in Dom(mcp_servers) :
          mcp_servers[id].tools # <<>> =>
            mcp_servers[id].status = "running" \/ WasRunning(id))
  /\ [](\A id \in Dom(bridge_disk.mcp_servers) :
          LET d == LoadMcp(bridge_disk.mcp_servers[id])
          IN d.tools # <<>> => d.status = "running" \/ d.last_health_check # NoTime)
  /\ [][\A id \in Dom(mcp_servers') :
          IF id \in Dom(mcp_servers)
            THEN mcp_servers'[id].tools # mcp_servers[id].tools =>
                   mcp_servers'[id].status = "running"
            ELSE mcp_servers'[id].tools = <<>>]_vars

\* A server that listed its tools in a successful start and whose next start failed.
C34_Witness ==
  \E id \in Dom(mcp_servers) :
    /\ mcp_servers[id].tools # <<>>
    /\ mcp_servers[id].status = "error"
    /\ WasRunning(id)


\* ------------------------------------------------ claims: unknown ids
\* The step in which the request in slot s, naming an id that is not stored, is answered.
UnknownAnswered(s) ==
  /\ calls'[s] # calls[s]
  /\ calls'[s].at = "done"
  /\ calls'[s].entry = NotFound

\* What the route of the same operation answers when the launch or the handshake fails.
FailureReply(op) ==
  RouteReply([op |-> op, entry |-> [status |-> "stopped", session |-> NoSession, live |-> FALSE],
              result |-> IF op = "start" THEN "false" ELSE "raised"])

\* C35 as stated: a request that names an id not in the store is answered with a
\* not-found client error that differs from the answer to a failed launch or handshake,
\* and changes no record; for bridges of the registry and for MCP servers alike.
C35_Original ==
  [][/\ \A s \in Slots :
          UnknownAnswered(s) =>
            /\ RouteReply(calls'[s]).status \in {400, 404}
            /\ RouteReply(calls'[s]) # FailureReply(calls'[s].op)
            /\ UNCHANGED <<mcp_servers, client_sessions, bridge_disk, stdio>>
     /\ (trace' # trace /\ trace'[Len(trace')].result = "notfound") =>
            UNCHANGED <<servers, bridges, disk, procs, next_port>>]_vars


\* ------------------------------------------------ claims: duplicate operation ids
\* The positions of the entries of the called server that carry the operation id of the
\* request in slot s.
Matches(s) ==
  LET eps == openapi_servers[calls[s].request.server_id].endpoints
  IN {i \in 1..Len(eps) : eps[i].operation_id = calls[s].request.operation_id}

\* C36: when several entries of a server's endpoints carry the requested operation id,
\* the request that is sent has the method and the path of the one at the lowest index.
C36_FirstMatchWins ==
  \A s \in CallSlots :
    (calls[s].at # "free" /\ calls[s].op = "call_openapi" /\ calls[s].sent # NoRequest) =>
      LET server == openapi_servers[calls[s].request.server_id]
          first  == CHOOSE i \in Matches(s) : \A j \in Matches(s) : i <= j
      IN /\ Matches(s) # {}
         /\ calls[s].sent.method = server.endpoints[first].method
         /\ calls[s].sent.url = BuildUrl(server.base_url, server.endpoints[first].path,
                                         calls[s].request.path_params)

\* A request was sent for an operation id that two entries with different methods carry.
C36_Witness ==
  \E s \in CallSlots :
    /\ calls[s].at # "free" /\ calls[s].op = "call_openapi" /\ calls[s].sent # NoRequest
    /\ \E i, j \in Matches(s) :
         LET eps == openapi_servers[calls[s].request.server_id].endpoints
         IN i < j /\ eps[i].method # eps[j].method /\ eps[i].path # eps[j].path


\* ------------------------------------------------ claims: status starting
\* C37 as stated: status "starting" is never a resting state: whenever no start call is
\* in progress for a bridge of the registry or for an MCP server, its status is not
\* "starting" (every start attempt has then ended with status running or error).
C37_Original ==
  /\ \A id \in Dom(bridges) :
       bridges[id].status = "starting" => (pc.kind = "starting" /\ pc.id = id)
  /\ \A id \in Dom(mcp_servers) :
       mcp_servers[id].status = "starting" => Starting(id) # {}


\* ------------------------------------------------ claims: discover_openapi_servers
\* The step in which the discover_openapi_servers call in slot s returns.
DiscoveryReturns(s) ==
  /\ calls'[s] # calls[s]
  /\ calls'[s].at = "done"
  /\ calls'[s].op = "discover_openapi"

\* C38 as stated: a call of discover_openapi_servers either stores every listed server,
\* saves the store and returns those records, or leaves the collection in memory as it
\* was before the call and returns an empty list.
C38_Original ==
  [][DiscoveryReturns(1) =>
       LET c == calls'[1]
       IN \/ /\ Len(c.result) = Len(c.listed)
             /\ Dom(openapi_servers') = c.entry \cup {c.result[i] : i \in 1..Len(c.result)}
             /\ bridge_disk' = BridgeSnapshot(mcp_servers', openapi_servers')
          \/ /\ c.result = <<>>
             /\ Dom(openapi_servers') = c.entry]_vars


\* ------------------------------------------------ claims: running after a load
\* C39 as stated: in every state of a registry instance, the state right after
\* load_data included, a bridge with status running has the process id of a process
\* that this instance launched and has not signalled to terminate.
C39_Original ==
  \A id \in Dom(bridges) :
    bridges[id].status = "running" => bridges[id].process_id \in procs


=============================================================================
